---- MODULE Spec2Model ----
(***************************************************************************)
(* go-configmgr: the Store (ConfigManager.data), the value and key         *)
(* normalizers and the source loaders that merge into the Store.           *)
(*                                                                         *)
(* Strings are sequences of one-character strings, so that ToUpper,        *)
(* TrimSpace, Atoi, ParseBool and filepath.Ext are computed character by   *)
(* character as the Go code computes them.                                 *)
(* Values of type interface{} are tagged tuples:                           *)
(*   <<"nil">>, <<"int", n>>, <<"bool", b>>, <<"string", s>>,              *)
(*   <<"float", whole, hundredths>>, <<"opaque", id>>.                     *)
(***************************************************************************)
EXTENDS Integers, Sequences, FiniteSets, TLC

VARIABLES data, env, call, err, reads, lastw, arg, pc, stats, target, out,
          copy

vars ==
  <<data, env, call, err, reads, lastw, arg, pc, stats, target, out, copy>>

(***************************************************************************)
(* Bounds of the model.                                                    *)
(***************************************************************************)
\* longest string enumerated exhaustively as an input of normalizeValue
MaxLen == 3

\* longest argument list of LoadFiles
MaxPaths == 2

(***************************************************************************)
(* Go values.                                                              *)
(***************************************************************************)
NilV == <<"nil">>

IntV(n) == <<"int", n>>

BoolV(b) == <<"bool", b>>

StrV(s) == <<"string", s>>

FloatV(w, h) == <<"float", w, h>>

OpaqueV(id) == <<"opaque", id>>

IsStr(v) == v[1] = "string"

(***************************************************************************)
(* strings.ToUpper / strings.ToLower / strings.TrimSpace (ASCII).          *)
(***************************************************************************)
LowerLetters ==
  <<"a","b","c","d","e","f","g","h","i","j","k","l","m",
    "n","o","p","q","r","s","t","u","v","w","x","y","z">>

UpperLetters ==
  <<"A","B","C","D","E","F","G","H","I","J","K","L","M",
    "N","O","P","Q","R","S","T","U","V","W","X","Y","Z">>

ToUpperChar(c) ==
  IF \E i \in 1..26 : LowerLetters[i] = c
    THEN UpperLetters[CHOOSE i \in 1..26 : LowerLetters[i] = c]
    ELSE c

ToLowerChar(c) ==
  IF \E i \in 1..26 : UpperLetters[i] = c
    THEN LowerLetters[CHOOSE i \in 1..26 : UpperLetters[i] = c]
    ELSE c

ToUpper(s) == [i \in 1..Len(s) |-> ToUpperChar(s[i])]

ToLower(s) == [i \in 1..Len(s) |-> ToLowerChar(s[i])]

WhiteSpace == {" ", "\t", "\n", "\r"}

TrimSpace(s) ==
  LET keep == {i \in 1..Len(s) : s[i] \notin WhiteSpace}
  IN  IF keep = {} THEN <<>>
      ELSE SubSeq(s, CHOOSE i \in keep : \A j \in keep : i <= j,
                     CHOOSE i \in keep : \A j \in keep : j <= i)

HasSuffix(s, suf) ==
  /\ Len(suf) <= Len(s)
  /\ SubSeq(s, Len(s) - Len(suf) + 1, Len(s)) = suf

TrimSuffix(s, suf) ==
  IF HasSuffix(s, suf) THEN SubSeq(s, 1, Len(s) - Len(suf)) ELSE s

(***************************************************************************)
(* strconv.Atoi and strconv.ParseBool.  Both return <<ok, value>>.         *)
(* Atoi: an optional sign, then one or more decimal digits and nothing     *)
(* else.  The strings of the model are far shorter than the 19 digits at   *)
(* which Atoi reports a range error.                                       *)
(***************************************************************************)
Digits == <<"0","1","2","3","4","5","6","7","8","9">>

IsDigit(c) == \E i \in 1..10 : Digits[i] = c

DigitVal(c) == (CHOOSE i \in 1..10 : Digits[i] = c) - 1

RECURSIVE ParseDigits(_, _)
ParseDigits(s, acc) ==
  IF s = <<>> THEN acc
  ELSE ParseDigits(Tail(s), acc * 10 + DigitVal(Head(s)))

Atoi(s) ==
  LET signed == s # <<>> /\ Head(s) \in {"-", "+"}
      body   == IF signed THEN Tail(s) ELSE s
  IN  IF body = <<>> \/ \E i \in 1..Len(body) : ~IsDigit(body[i])
        THEN <<FALSE, 0>>
        ELSE IF signed /\ Head(s) = "-"
               THEN <<TRUE, 0 - ParseDigits(body, 0)>>
               ELSE <<TRUE, ParseDigits(body, 0)>>

BoolTrueLits ==
  { <<"1">>, <<"t">>, <<"T">>, <<"T","R","U","E">>, <<"t","r","u","e">>,
    <<"T","r","u","e">> }

BoolFalseLits ==
  { <<"0">>, <<"f">>, <<"F">>, <<"F","A","L","S","E">>,
    <<"f","a","l","s","e">>, <<"F","a","l","s","e">> }

ParseBool(s) ==
  IF s \in BoolTrueLits THEN <<TRUE, TRUE>>
  ELSE IF s \in BoolFalseLits THEN <<TRUE, FALSE>>
  ELSE <<FALSE, FALSE>>

(***************************************************************************)
(* normalizeKey / normalizeValue.                                          *)
(***************************************************************************)
normalizeKey(key) == ToUpper(key)

\* a normalizer that tries the boolean parse before the integer parse
normalizeValue_BoolFirst(value) ==
  IF IsStr(value)
    THEN LET s == TrimSpace(value[2])
         IN  IF ParseBool(s)[1] THEN BoolV(ParseBool(s)[2])
             ELSE IF Atoi(s)[1] THEN IntV(Atoi(s)[2])
             ELSE StrV(s)
    ELSE value

\* a normalizer that parses the string as given and trims only the
\* string it returns
normalizeValue_ParseUntrimmed(value) ==
  IF IsStr(value)
    THEN LET s == TrimSpace(value[2])
         IN  IF Atoi(value[2])[1] THEN IntV(Atoi(value[2])[2])
             ELSE IF ParseBool(value[2])[1] THEN BoolV(ParseBool(value[2])[2])
             ELSE StrV(s)
    ELSE value

normalizeValue(value) ==
  IF IsStr(value)
    THEN LET s == TrimSpace(value[2])
         IN  IF Atoi(s)[1] THEN IntV(Atoi(s)[2])
             ELSE IF ParseBool(s)[1] THEN BoolV(ParseBool(s)[2])
             ELSE StrV(s)
    ELSE value

(***************************************************************************)
(* path/filepath.Ext: the suffix beginning at the last dot of the final    *)
(* path element, or the empty string.                                      *)
(***************************************************************************)
Ext(path) ==
  LET dots == {i \in 1..Len(path) :
                 /\ path[i] = "."
                 /\ \A j \in i..Len(path) : path[j] # "/"}
  IN  IF dots = {} THEN <<>>
      ELSE SubSeq(path, CHOOSE i \in dots : \A j \in dots : j <= i, Len(path))

DotJson == <<".","j","s","o","n">>

DotYaml == <<".","y","a","m","l">>

DotYml == <<".","y","m","l">>

DotEnc == <<".","e","n","c">>

(***************************************************************************)
(* The files on disk.  The program never writes a file, so the file system *)
(* is a fixed table from path to content.  A content is what the decoders  *)
(* make of the bytes: its syntax and its top-level entries <<key, token>>  *)
(* in textual order; a token is the scalar as written (integer literal,    *)
(* decimal literal, string, boolean, null, nested structure).              *)
(***************************************************************************)
Text(syn, ents) == [syntax |-> syn, entries |-> ents]

\* base64 of nonce || ciphertext || tag: size is the decoded length in
\* bytes, sealedWith the secret the blob was sealed under (<<>> for bytes
\* that no secret opens), plain the content that was sealed.
Blob(n, secret, content) ==
  [syntax |-> "base64", entries |-> <<>>, size |-> n, sealedWith |-> secret,
   plain |-> content]

kAp == <<"a","p">>

kAP == <<"A","P">>

kN == <<"n">>

kE == <<"E">>

sDev == <<"d","e","v">>

s80 == <<"8","0">>

s9090 == <<"9","0","9","0">>

sTrue == <<"t","r","u","e">>

sX == <<"x">>

sFs == <<"F","s">>

Secret == <<"S">>

WrongSecret == <<"W">>

pAJson == <<"a",".","j","s","o","n">>

pBYaml == <<"b",".","y","a","m","l">>

pCYml == <<"d","/","c",".","Y","M","L">>

pKJson == <<"k",".","J","S","O","N">>

pBadJson == <<"e",".","j","s","o","n">>

pDupYaml == <<"u",".","y","m","l">>

pTxt == <<"t",".","T","x","t">>

pNoExt == <<"d",".","d","/","r","c">>

pMissingYaml == <<"m",".","y","a","m","l">>

pMissingTxt == <<"m",".","T","X","T">>

pEnv == <<".","e","n","v">>

pBadEnv == <<"x",".","e","n","v">>

pJsonEnc == <<"s",".","j","s","o","n",".","e","n","c">>

pYamlEnc == <<"s",".","y","a","m","l",".","e","n","c">>

pShortEnc == <<"h",".","y","m","l",".","e","n","c">>

pBinEnc == <<"s",".","b","i","n">>

pEmptyEnc == <<"z",".","j","s","o","n",".","e","n","c">>

pDupEnc == <<"u",".","y","m","l",".","e","n","c">>

pBDevYaml == <<"b","-","d","e","v",".","y","a","m","l">>

pBXYaml == <<"b","-","x",".","y","a","m","l">>

pKDevJson == <<"k","-","d","e","v",".","j","s","o","n">>

pEnvDev == <<".","e","n","v",".","d","e","v">>

FS ==
  (pAJson :> Text("json", << <<kAp, IntV(1234)>>, <<kN, StrV(sX)>> >>)) @@
  (pBYaml :> Text("yaml", << <<kAP, IntV(80)>>, <<kN, BoolV(TRUE)>> >>)) @@
  (pCYml :> Text("yaml", << <<kAp, StrV(s80)>> >>)) @@
  (pKJson :> Text("json", << <<kAp, IntV(7)>>, <<kAP, StrV(sTrue)>> >>)) @@
  (pBadJson :> Text("garbage", <<>>)) @@
  (pDupYaml :> Text("yaml", << <<kN, IntV(7)>>, <<kN, IntV(8)>> >>)) @@
  (pTxt :> Text("json", << <<kN, StrV(sX)>> >>)) @@
  (pNoExt :> Text("yaml", << <<kN, StrV(sX)>> >>)) @@
  (pEnv :> Text("env", << <<kAp, StrV(s9090)>>, <<kN, StrV(sTrue)>> >>)) @@
  (pBadEnv :> Text("garbage", <<>>)) @@
  (pJsonEnc :> Blob(40, Secret,
                    Text("json", << <<kAP, IntV(70)>>, <<kN, StrV(sFs)>> >>))) @@
  (pYamlEnc :> Blob(40, Secret, Text("yaml", << <<kAp, IntV(70)>> >>))) @@
  (pShortEnc :> Blob(3, <<>>, Text("garbage", <<>>))) @@
  (pEmptyEnc :> Blob(0, <<>>, Text("garbage", <<>>))) @@
  (pBinEnc :> Blob(40, Secret, Text("json", << <<kN, IntV(1)>> >>))) @@
  (pDupEnc :> Blob(40, Secret,
                   Text("yaml", << <<kN, IntV(7)>>, <<kN, IntV(8)>> >>))) @@
  (pBDevYaml :> Text("yaml", << <<kAp, IntV(9090)>> >>)) @@
  (pBXYaml :> Text("garbage", <<>>)) @@
  (pKDevJson :> Text("json", << <<kN, StrV(sFs)>> >>)) @@
  (pEnvDev :> Text("env", << <<kN, StrV(sFs)>> >>))

\* os.ReadFile / os.Stat succeed exactly on the paths of the table
Exists(path) == path \in DOMAIN FS

(***************************************************************************)
(* Errors.  nil is NoErr.                                                  *)
(***************************************************************************)
NoErr == <<"nil">>

ErrOpen(path) == <<"open", path>>

ErrParse(decoder) == <<"parse", decoder>>

ErrUnsupported(ext) == <<"unsupported file type", ext>>

ErrUnsupportedEnc(ext) == <<"unsupported encrypted file type", ext>>

ErrBase64 == <<"illegal base64 data">>

ErrShort == <<"ciphertext too short">>

ErrDecrypt == <<"decryption failed">>

(***************************************************************************)
(* The decoders, each returning [err, tmp]: tmp is the map the decoder     *)
(* filled, from the key as written to the decoded value.                   *)
(*  - encoding/json decodes every number into float64; of two entries      *)
(*    with the same key the later one stays.                               *)
(*  - yaml.v3 decodes an integer literal into int, accepts JSON text       *)
(*    (YAML flow syntax), and rejects a mapping with a repeated key after  *)
(*    it has decoded the entries before the repetition.                    *)
(*  - godotenv.Read yields strings only.                                   *)
(***************************************************************************)
EntryKeys(ents) == {ents[i][1] : i \in 1..Len(ents)}

LastOf(ents, k) ==
  ents[CHOOSE i \in 1..Len(ents) :
         /\ ents[i][1] = k
         /\ \A j \in 1..Len(ents) : ents[j][1] = k => j <= i][2]

EmptyMap == [k \in {} |-> NilV]

jsonValue(tok) == IF tok[1] = "int" THEN FloatV(tok[2], 0) ELSE tok

jsonUnmarshal(raw) ==
  IF raw.syntax = "json"
    THEN [err |-> NoErr,
          tmp |-> [k \in EntryKeys(raw.entries) |->
                     jsonValue(LastOf(raw.entries, k))]]
    ELSE [err |-> ErrParse("json"), tmp |-> EmptyMap]

FirstDup(ents) ==
  LET dups == {i \in 1..Len(ents) : \E j \in 1..(i-1) : ents[j][1] = ents[i][1]}
  IN  IF dups = {} THEN 0 ELSE CHOOSE i \in dups : \A j \in dups : i <= j

yamlUnmarshal(raw) ==
  IF raw.syntax \in {"yaml", "json"}
    THEN IF FirstDup(raw.entries) = 0
           THEN [err |-> NoErr,
                 tmp |-> [k \in EntryKeys(raw.entries) |->
                            LastOf(raw.entries, k)]]
           ELSE LET seen == SubSeq(raw.entries, 1, FirstDup(raw.entries) - 1)
                IN  [err |-> ErrParse("yaml"),
                     tmp |-> [k \in EntryKeys(seen) |-> LastOf(seen, k)]]
    ELSE [err |-> ErrParse("yaml"), tmp |-> EmptyMap]

godotenvRead(path) ==
  IF ~Exists(path) THEN [err |-> ErrOpen(path), tmp |-> EmptyMap]
  ELSE IF FS[path].syntax = "env"
    THEN [err |-> NoErr,
          tmp |-> [k \in EntryKeys(FS[path].entries) |->
                     LastOf(FS[path].entries, k)]]
    ELSE [err |-> ErrParse("env"), tmp |-> EmptyMap]

(***************************************************************************)
(* The Store and the process environment.                                  *)
(*   data   cm.data: a map from stored key to value                        *)
(*   env    the process environment: a map from variable name to string    *)
(*   call   the last operation called, with its arguments                  *)
(*   err    the value returned by the last operation (NoErr for nil and    *)
(*          for the operations that return nothing)                        *)
(*   reads  the paths the last operation handed to os.ReadFile or          *)
(*          godotenv.Read, in order                                        *)
(*   lastw  history: for every stored key, the kind of the last operation  *)
(*          that wrote it and the values that operation carried for it     *)
(*   stats  the paths the last LoadWithProfile handed to os.Stat           *)
(*   target the structure the last Unmarshal was given, as it left it: a   *)
(*          map from field name to field value                             *)
(*   out    the bytes the last ToJSON or ToYAML returned, which the caller *)
(*          writes to a file                                               *)
(*   copy   the data of a second ConfigManager, which loads that file      *)
(* An operation maps a state record [data, env, err, reads, lastw] to the  *)
(* set of states it can end in: ranging over a Go map visits the keys in   *)
(* an order the runtime chooses.                                           *)
(***************************************************************************)
NoBytes == Text("none", <<>>)

Put(m, k, v) == [x \in DOMAIN m \cup {k} |-> IF x = k THEN v ELSE m[x]]

Cur == [data |-> data, env |-> env, err |-> err, reads |-> reads,
        lastw |-> lastw]

\* the state at the start of an operation: nothing returned or read yet
Enter(st) == [st EXCEPT !.err = NoErr, !.reads = <<>>]

Fail(st, e) == [st EXCEPT !.err = e]

Read(st, path) == [st EXCEPT !.reads = Append(st.reads, path)]

\* Get(key) on the Store d
Get(d, key) ==
  IF normalizeKey(key) \in DOMAIN d THEN d[normalizeKey(key)] ELSE NilV

\* a Set that stores under the key as given
SetData_RawKey(d, key, value) == Put(d, key, normalizeValue(value))

\* cm.data[normalizeKey(key)] = normalizeValue(value)
SetData(d, key, value) == Put(d, normalizeKey(key), normalizeValue(value))

Wrote(lw, op, K, raws) == Put(lw, K, [op |-> op, raws |-> raws])

Set(st, key, value) ==
  { [Enter(st) EXCEPT
       !.data = SetData(st.data, key, value),
       !.lastw = Wrote(st.lastw, "Set", normalizeKey(key), {value})] }

\* the orders in which "for k, v := range tmp" can visit the keys of tmp
RangeOrders(tmp) ==
  {o \in [1..Cardinality(DOMAIN tmp) -> DOMAIN tmp] :
     \A i, j \in DOMAIN o : o[i] = o[j] => i = j}

\* a merge that keeps the value of a key the Store already holds
RECURSIVE MergeInOrder_KeepFirst(_, _, _)
MergeInOrder_KeepFirst(d, tmp, order) ==
  IF order = <<>> THEN d
  ELSE MergeInOrder_KeepFirst(
         IF normalizeKey(Head(order)) \in DOMAIN d THEN d
         ELSE Put(d, normalizeKey(Head(order)),
                  normalizeValue(tmp[Head(order)])),
         tmp, Tail(order))

\* for k, v := range tmp { cm.data[normalizeKey(k)] = normalizeValue(v) }
RECURSIVE MergeInOrder(_, _, _)
MergeInOrder(d, tmp, order) ==
  IF order = <<>> THEN d
  ELSE MergeInOrder(Put(d, normalizeKey(Head(order)),
                        normalizeValue(tmp[Head(order)])),
                    tmp, Tail(order))

Merge(d, tmp) == {MergeInOrder(d, tmp, o) : o \in RangeOrders(tmp)}

StoredKeys(tmp) == {normalizeKey(k) : k \in DOMAIN tmp}

Carried(tmp, K) == {tmp[k] : k \in {x \in DOMAIN tmp : normalizeKey(x) = K}}

WroteAll(lw, op, tmp) ==
  [K \in DOMAIN lw \cup StoredKeys(tmp) |->
     IF K \in StoredKeys(tmp) THEN [op |-> op, raws |-> Carried(tmp, K)]
     ELSE lw[K]]

Merged(st, op, tmp) ==
  { [st EXCEPT !.data = d, !.lastw = WroteAll(st.lastw, op, tmp)] :
      d \in Merge(st.data, tmp) }

(***************************************************************************)
(* LoadFromFile and LoadFiles.                                             *)
(***************************************************************************)
\* LoadFromFile after os.ReadFile has returned raw: the decoder the
\* extension selects, then the merge loop
decodeFile(st1, path, raw) ==
  LET ext == ToLower(Ext(path))
  IN  IF ext = DotJson
        THEN IF jsonUnmarshal(raw).err # NoErr
               THEN {Fail(st1, jsonUnmarshal(raw).err)}
               ELSE Merged(st1, "LoadFromFile", jsonUnmarshal(raw).tmp)
      ELSE IF ext \in {DotYaml, DotYml}
        THEN IF yamlUnmarshal(raw).err # NoErr
               THEN {Fail(st1, yamlUnmarshal(raw).err)}
               ELSE Merged(st1, "LoadFromFile", yamlUnmarshal(raw).tmp)
      ELSE {Fail(st1, ErrUnsupported(ext))}

\* a loader that compares the extension as written
loadFromFile_CaseSensitive(st, path) ==
  IF ~Exists(path) THEN {Fail(Read(st, path), ErrOpen(path))}
  ELSE
    LET st1 == Read(st, path)
        raw == FS[path]
        ext == Ext(path)
    IN  IF ext = DotJson
          THEN IF jsonUnmarshal(raw).err # NoErr
                 THEN {Fail(st1, jsonUnmarshal(raw).err)}
                 ELSE Merged(st1, "LoadFromFile", jsonUnmarshal(raw).tmp)
        ELSE IF ext \in {DotYaml, DotYml}
          THEN IF yamlUnmarshal(raw).err # NoErr
                 THEN {Fail(st1, yamlUnmarshal(raw).err)}
                 ELSE Merged(st1, "LoadFromFile", yamlUnmarshal(raw).tmp)
        ELSE {Fail(st1, ErrUnsupported(ext))}

\* a loader that merges what the decoder had decoded when it failed
loadFromFile_MergePartial(st, path) ==
  IF ~Exists(path) THEN {Fail(Read(st, path), ErrOpen(path))}
  ELSE
    LET st1 == Read(st, path)
        raw == FS[path]
        ext == ToLower(Ext(path))
    IN  IF ext = DotJson
          THEN IF jsonUnmarshal(raw).err # NoErr
                 THEN {Fail(x, jsonUnmarshal(raw).err) :
                         x \in Merged(st1, "LoadFromFile",
                                      jsonUnmarshal(raw).tmp)}
                 ELSE Merged(st1, "LoadFromFile", jsonUnmarshal(raw).tmp)
        ELSE IF ext \in {DotYaml, DotYml}
          THEN IF yamlUnmarshal(raw).err # NoErr
                 THEN {Fail(x, yamlUnmarshal(raw).err) :
                         x \in Merged(st1, "LoadFromFile",
                                      yamlUnmarshal(raw).tmp)}
                 ELSE Merged(st1, "LoadFromFile", yamlUnmarshal(raw).tmp)
        ELSE {Fail(st1, ErrUnsupported(ext))}

loadFromFile(st, path) ==
  IF ~Exists(path) THEN {Fail(Read(st, path), ErrOpen(path))}
  ELSE decodeFile(Read(st, path), path, FS[path])

LoadFromFile(st, path) == loadFromFile(Enter(st), path)

\* a LoadFiles that goes on to the next path after a failed load and
\* returns the last error
RECURSIVE loadFiles_ContinueOnError(_, _)
loadFiles_ContinueOnError(sts, paths) ==
  IF paths = <<>> THEN sts
  ELSE loadFiles_ContinueOnError(
         UNION {loadFromFile(st, Head(paths)) : st \in sts}, Tail(paths))

\* for _, path := range paths { if err := LoadFromFile(path) ... return err }
RECURSIVE loadFiles(_, _)
loadFiles(sts, paths) ==
  IF paths = <<>> THEN sts
  ELSE LET after == UNION {loadFromFile(st, Head(paths)) : st \in sts}
       IN  {st \in after : st.err # NoErr}
             \cup loadFiles({st \in after : st.err = NoErr}, Tail(paths))

LoadFiles(st, paths) == loadFiles({Enter(st)}, paths)

(***************************************************************************)
(* LoadFromDotEnv and LoadFromSysEnv.                                      *)
(***************************************************************************)
DefaultDotEnv == <<".","e","n","v">>

\* os.Setenv(k, v) for every pair of envMap
Exported(e, envMap) ==
  [n \in DOMAIN e \cup DOMAIN envMap |->
     IF n \in DOMAIN envMap THEN envMap[n][2] ELSE e[n]]

\* a dot-env loader that merges into the Store and leaves the process
\* environment alone
loadFromDotEnv_StoreOnly(st, path0) ==
  LET path == IF path0 = <<>> THEN DefaultDotEnv ELSE path0
      st1  == Read(st, path)
      res  == godotenvRead(path)
  IN  IF res.err # NoErr THEN {Fail(st1, res.err)}
      ELSE Merged(st1, "LoadFromDotEnv", res.tmp)

loadFromDotEnv(st, path0) ==
  LET path == IF path0 = <<>> THEN DefaultDotEnv ELSE path0
      st1  == Read(st, path)
      res  == godotenvRead(path)
  IN  IF res.err # NoErr THEN {Fail(st1, res.err)}
      ELSE Merged([st1 EXCEPT !.env = Exported(st.env, res.tmp)],
                  "LoadFromDotEnv", res.tmp)

LoadFromDotEnv(st, path) == loadFromDotEnv(Enter(st), path)

\* a system-env loader that coerces the value as the other loaders do
LoadFromSysEnv_Coerced(st, key) ==
  IF key \in DOMAIN st.env
    THEN { [Enter(st) EXCEPT
              !.data = Put(st.data, normalizeKey(key),
                           normalizeValue(StrV(st.env[key]))),
              !.lastw = Wrote(st.lastw, "LoadFromSysEnv", normalizeKey(key),
                              {StrV(st.env[key])})] }
    ELSE {Enter(st)}

\* a system-env loader that reads with os.Getenv: an absent variable
\* reads as the empty string and is stored
LoadFromSysEnv_Getenv(st, key) ==
  LET val == IF key \in DOMAIN st.env THEN st.env[key] ELSE <<>>
  IN  { [Enter(st) EXCEPT
           !.data = Put(st.data, normalizeKey(key), StrV(normalizeKey(val))),
           !.lastw = Wrote(st.lastw, "LoadFromSysEnv", normalizeKey(key),
                           {StrV(val)})] }

\* if val, ok := os.LookupEnv(key); ok { data[normalizeKey(key)] = normalizeKey(val) }
LoadFromSysEnv(st, key) ==
  IF key \in DOMAIN st.env
    THEN { [Enter(st) EXCEPT
              !.data = Put(st.data, normalizeKey(key),
                           StrV(normalizeKey(st.env[key]))),
              !.lastw = Wrote(st.lastw, "LoadFromSysEnv", normalizeKey(key),
                              {StrV(st.env[key])})] }
    ELSE {Enter(st)}

(***************************************************************************)
(* LoadWithProfile.  It returns the states it can end in paired with the   *)
(* paths it handed to os.Stat: [st, stats].                                *)
(***************************************************************************)
DotEnv == <<".","e","n","v">>

\* a lookup that reads an unset variable as the profile name dev
Getenv_DefaultDev(e, name) == IF name \in DOMAIN e THEN e[name] ELSE sDev

\* os.Getenv: an unset variable reads as the empty string
Getenv(e, name) == IF name \in DOMAIN e THEN e[name] ELSE <<>>

\* fmt.Sprintf("%s-%s%s", strings.TrimSuffix(baseFile, ext), env, ext) and
\* fmt.Sprintf("%s.%s", baseFile, env); ext is the lower-cased extension
profileFile(baseFile, ext, e) ==
  IF ext = DotEnv THEN baseFile \o <<".">> \o e
  ELSE TrimSuffix(baseFile, ext) \o <<"-">> \o e \o ext

Probed(sts, paths) == {[st |-> st, stats |-> paths] : st \in sts}

\* a resolver that loads the profile file without asking whether it exists
LoadWithProfile_NoStat(st0, envKey, baseFile) ==
  LET ext  == ToLower(Ext(baseFile))
      e    == Getenv(st0.env, envKey)
      prof == profileFile(baseFile, ext, e)
  IN  IF e = <<>>
        THEN IF ext = DotEnv
               THEN Probed(LoadFromDotEnv(st0, baseFile), <<>>)
               ELSE Probed(LoadFromFile(st0, baseFile), <<>>)
      ELSE IF ext \in {DotJson, DotYaml, DotYml}
        THEN LET base == LoadFromFile(st0, baseFile)
             IN  Probed({st \in base : st.err # NoErr}, <<>>)
                   \cup Probed(UNION {loadFromFile(st, prof) :
                                        st \in {x \in base : x.err = NoErr}},
                               <<>>)
      ELSE IF ext = DotEnv
        THEN LET base == LoadFromDotEnv(st0, baseFile)
             IN  Probed({st \in base : st.err # NoErr}, <<>>)
                   \cup Probed(UNION {loadFromDotEnv(st, prof) :
                                        st \in {x \in base : x.err = NoErr}},
                               <<>>)
      ELSE Probed({Fail(Enter(st0), ErrUnsupported(ext))}, <<>>)

\* a resolver that puts the Store back as it was at entry when the
\* profile file fails to load
LoadWithProfile_Rollback(st0, envKey, baseFile) ==
  LET ext  == ToLower(Ext(baseFile))
      e    == Getenv(st0.env, envKey)
      prof == profileFile(baseFile, ext, e)
      undo(sts) == {IF st.err = NoErr THEN st
                    ELSE [st EXCEPT !.data = st0.data, !.lastw = st0.lastw] :
                      st \in sts}
  IN  IF e = <<>>
        THEN IF ext = DotEnv
               THEN Probed(LoadFromDotEnv(st0, baseFile), <<>>)
               ELSE Probed(LoadFromFile(st0, baseFile), <<>>)
      ELSE IF ext \in {DotJson, DotYaml, DotYml}
        THEN LET base == LoadFromFile(st0, baseFile)
                 ok   == {st \in base : st.err = NoErr}
             IN  Probed(base \ ok, <<>>)
                   \cup IF Exists(prof)
                          THEN Probed(undo(UNION {loadFromFile(st, prof) :
                                                    st \in ok}),
                                      <<prof>>)
                          ELSE Probed(ok, <<prof>>)
      ELSE IF ext = DotEnv
        THEN LET base == LoadFromDotEnv(st0, baseFile)
                 ok   == {st \in base : st.err = NoErr}
             IN  Probed(base \ ok, <<>>)
                   \cup IF Exists(prof)
                          THEN Probed(undo(UNION {loadFromDotEnv(st, prof) :
                                                    st \in ok}),
                                      <<prof>>)
                          ELSE Probed(ok, <<prof>>)
      ELSE Probed({Fail(Enter(st0), ErrUnsupported(ext))}, <<>>)

\* a resolver that reads the profile variable after it has loaded the
\* base file
LoadWithProfile_LateGetenv(st0, envKey, baseFile) ==
  LET ext  == ToLower(Ext(baseFile))
      over(st) ==
        LET e    == Getenv(st.env, envKey)
            prof == profileFile(baseFile, ext, e)
        IN  IF e = <<>> THEN Probed({st}, <<>>)
            ELSE IF Exists(prof)
              THEN Probed(IF ext = DotEnv THEN loadFromDotEnv(st, prof)
                          ELSE loadFromFile(st, prof), <<prof>>)
              ELSE Probed({st}, <<prof>>)
  IN  IF ext \in {DotJson, DotYaml, DotYml, DotEnv}
        THEN LET base == IF ext = DotEnv THEN LoadFromDotEnv(st0, baseFile)
                         ELSE LoadFromFile(st0, baseFile)
                 ok   == {st \in base : st.err = NoErr}
             IN  Probed(base \ ok, <<>>) \cup UNION {over(st) : st \in ok}
        ELSE IF Getenv(st0.env, envKey) = <<>>
          THEN Probed(LoadFromFile(st0, baseFile), <<>>)
          ELSE Probed({Fail(Enter(st0), ErrUnsupported(ext))}, <<>>)

LoadWithProfile(st0, envKey, baseFile) ==
  LET ext  == ToLower(Ext(baseFile))
      e    == Getenv(st0.env, envKey)
      prof == profileFile(baseFile, ext, e)
  IN  IF e = <<>>
        THEN IF ext = DotEnv
               THEN Probed(LoadFromDotEnv(st0, baseFile), <<>>)
               ELSE Probed(LoadFromFile(st0, baseFile), <<>>)
      ELSE IF ext \in {DotJson, DotYaml, DotYml}
        THEN LET base == LoadFromFile(st0, baseFile)
                 ok   == {st \in base : st.err = NoErr}
             IN  Probed(base \ ok, <<>>)
                   \cup IF Exists(prof)
                          THEN Probed(UNION {loadFromFile(st, prof) : st \in ok},
                                      <<prof>>)
                          ELSE Probed(ok, <<prof>>)
      ELSE IF ext = DotEnv
        THEN LET base == LoadFromDotEnv(st0, baseFile)
                 ok   == {st \in base : st.err = NoErr}
             IN  Probed(base \ ok, <<>>)
                   \cup IF Exists(prof)
                          THEN Probed(UNION {loadFromDotEnv(st, prof) : st \in ok},
                                      <<prof>>)
                          ELSE Probed(ok, <<prof>>)
      ELSE Probed({Fail(Enter(st0), ErrUnsupported(ext))}, <<>>)

(***************************************************************************)
(* LoadEncryptedFile.                                                      *)
(***************************************************************************)
\* gcm.NonceSize()
NonceSize == 12

\* an Open that yields the plaintext of a sealed blob for every secret
gcmOpen_AnySecret(raw, secret) == raw.sealedWith # <<>>

\* gcm.Open authenticates the blob: it yields the plaintext exactly for
\* the secret the blob was sealed under
gcmOpen(raw, secret) == raw.sealedWith # <<>> /\ raw.sealedWith = secret

getEncryptedExt(path) ==
  IF HasSuffix(path, DotJson \o DotEnc) THEN DotJson \o DotEnc
  ELSE IF HasSuffix(path, DotYaml \o DotEnc) THEN DotYaml \o DotEnc
  ELSE IF HasSuffix(path, DotYml \o DotEnc) THEN DotYml \o DotEnc
  ELSE Ext(path)

\* a loader without the length check: slicing a blob shorter than the
\* nonce panics
LoadEncryptedFile_NoLengthCheck(st0, path, secret) ==
  LET st == Enter(st0)
  IN
  IF ~Exists(path) THEN {Fail(Read(st, path), ErrOpen(path))}
  ELSE
    LET st1 == Read(st, path)
        raw == FS[path]
        ext == getEncryptedExt(path)
    IN  IF raw.syntax # "base64" THEN {Fail(st1, ErrBase64)}
        ELSE IF raw.size < NonceSize
          THEN {Fail(st1, <<"panic: slice bounds out of range">>)}
        ELSE IF ~gcmOpen(raw, secret) THEN {Fail(st1, ErrDecrypt)}
        ELSE IF ext = DotJson \o DotEnc
          THEN IF jsonUnmarshal(raw.plain).err # NoErr
                 THEN {Fail(st1, jsonUnmarshal(raw.plain).err)}
                 ELSE Merged(st1, "LoadEncryptedFile",
                             jsonUnmarshal(raw.plain).tmp)
        ELSE IF ext \in {DotYaml \o DotEnc, DotYml \o DotEnc}
          THEN IF yamlUnmarshal(raw.plain).err # NoErr
                 THEN {Fail(st1, yamlUnmarshal(raw.plain).err)}
                 ELSE Merged(st1, "LoadEncryptedFile",
                             yamlUnmarshal(raw.plain).tmp)
        ELSE {Fail(st1, ErrUnsupportedEnc(ext))}

\* a loader that looks at the suffix before it decodes and decrypts
LoadEncryptedFile_SuffixFirst(st0, path, secret) ==
  LET st == Enter(st0)
  IN
  IF ~Exists(path) THEN {Fail(Read(st, path), ErrOpen(path))}
  ELSE
    LET st1 == Read(st, path)
        raw == FS[path]
        ext == getEncryptedExt(path)
    IN  IF ext \notin {DotJson \o DotEnc, DotYaml \o DotEnc, DotYml \o DotEnc}
          THEN {Fail(st1, ErrUnsupportedEnc(ext))}
        ELSE IF raw.syntax # "base64" THEN {Fail(st1, ErrBase64)}
        ELSE IF raw.size < NonceSize THEN {Fail(st1, ErrShort)}
        ELSE IF ~gcmOpen(raw, secret) THEN {Fail(st1, ErrDecrypt)}
        ELSE IF ext = DotJson \o DotEnc
          THEN IF jsonUnmarshal(raw.plain).err # NoErr
                 THEN {Fail(st1, jsonUnmarshal(raw.plain).err)}
                 ELSE Merged(st1, "LoadEncryptedFile",
                             jsonUnmarshal(raw.plain).tmp)
        ELSE IF yamlUnmarshal(raw.plain).err # NoErr
               THEN {Fail(st1, yamlUnmarshal(raw.plain).err)}
               ELSE Merged(st1, "LoadEncryptedFile",
                           yamlUnmarshal(raw.plain).tmp)

LoadEncryptedFile(st0, path, secret) ==
  LET st == Enter(st0)
  IN
  IF ~Exists(path) THEN {Fail(Read(st, path), ErrOpen(path))}
  ELSE
    LET st1 == Read(st, path)
        raw == FS[path]
        ext == getEncryptedExt(path)
    IN  IF raw.syntax # "base64" THEN {Fail(st1, ErrBase64)}
        ELSE IF raw.size < NonceSize THEN {Fail(st1, ErrShort)}
        ELSE IF ~gcmOpen(raw, secret) THEN {Fail(st1, ErrDecrypt)}
        ELSE IF ext = DotJson \o DotEnc
          THEN IF jsonUnmarshal(raw.plain).err # NoErr
                 THEN {Fail(st1, jsonUnmarshal(raw.plain).err)}
                 ELSE Merged(st1, "LoadEncryptedFile",
                             jsonUnmarshal(raw.plain).tmp)
        ELSE IF ext \in {DotYaml \o DotEnc, DotYml \o DotEnc}
          THEN IF yamlUnmarshal(raw.plain).err # NoErr
                 THEN {Fail(st1, yamlUnmarshal(raw.plain).err)}
                 ELSE Merged(st1, "LoadEncryptedFile",
                             yamlUnmarshal(raw.plain).tmp)
        ELSE {Fail(st1, ErrUnsupportedEnc(ext))}

(***************************************************************************)
(* Unmarshal: json.Marshal(cm.data), json.Unmarshal into the target,       *)
(* applyDefaults, validate.Struct.                                         *)
(* A structure type is the sequence of its fields; a field has its name,   *)
(* the key of its json tag, its kind (string, int, bool, float), the       *)
(* literal of its default tag (<<>> without one) and the rules of its      *)
(* validate tag in order: <<"required", 0>>, <<"gte", n>>, <<"lte", n>>.   *)
(* Unmarshal returns the states it can end in paired with the target as    *)
(* it leaves it: [st, target].                                             *)
(***************************************************************************)
Field(name, key, kind, def, rules) ==
  [name |-> name, key |-> key, kind |-> kind, def |-> def, rules |-> rules]

\* reflect.Zero of the kind
Zero(kind) ==
  IF kind = "string" THEN StrV(<<>>)
  ELSE IF kind = "int" THEN IntV(0)
  ELSE IF kind = "bool" THEN BoolV(FALSE)
  ELSE FloatV(0, 0)

\* var cfg T
ZeroTarget(T) ==
  [n \in {T[i].name : i \in 1..Len(T)} |->
     Zero(T[CHOOSE i \in 1..Len(T) : T[i].name = n].kind)]

ErrUnmarshalType == <<"json: cannot unmarshal">>

ErrValidation(failures) == <<"validation failed", failures>>

\* a decoder that lets a number or a boolean pass into a string field,
\* which it leaves empty
jsonDecode_Lenient(v, kind) ==
  IF v = NilV THEN <<TRUE, Zero(kind)>>
  ELSE IF kind = "string"
    THEN IF v[1] = "string" THEN <<TRUE, v>> ELSE <<TRUE, Zero(kind)>>
  ELSE IF kind = "int"
    THEN IF v[1] = "int" THEN <<TRUE, v>>
         ELSE IF v[1] = "float" /\ v[3] = 0 THEN <<TRUE, IntV(v[2])>>
         ELSE <<FALSE, Zero(kind)>>
  ELSE IF kind = "bool"
    THEN IF v[1] = "bool" THEN <<TRUE, v>> ELSE <<FALSE, Zero(kind)>>
  ELSE IF v[1] = "float" THEN <<TRUE, v>>
       ELSE IF v[1] = "int" THEN <<TRUE, FloatV(v[2], 0)>>
       ELSE <<FALSE, Zero(kind)>>

\* json.Unmarshal of one marshalled Store value into a field of the kind:
\* <<ok, value>>.  null leaves the field alone; a number goes into an int
\* field when it is written without a fraction, a string only into a
\* string field, a boolean only into a bool field.
jsonDecode(v, kind) ==
  IF v = NilV THEN <<TRUE, Zero(kind)>>
  ELSE IF kind = "string"
    THEN IF v[1] = "string" THEN <<TRUE, v>> ELSE <<FALSE, Zero(kind)>>
  ELSE IF kind = "int"
    THEN IF v[1] = "int" THEN <<TRUE, v>>
         ELSE IF v[1] = "float" /\ v[3] = 0 THEN <<TRUE, IntV(v[2])>>
         ELSE <<FALSE, Zero(kind)>>
  ELSE IF kind = "bool"
    THEN IF v[1] = "bool" THEN <<TRUE, v>> ELSE <<FALSE, Zero(kind)>>
  ELSE IF v[1] = "float" THEN <<TRUE, v>>
       ELSE IF v[1] = "int" THEN <<TRUE, FloatV(v[2], 0)>>
       ELSE <<FALSE, Zero(kind)>>

\* the Store value a field is decoded from: the key of the json tag,
\* matched exactly or else case-insensitively
HasKey(d, key) == \E k \in DOMAIN d : ToUpper(k) = ToUpper(key)

Lookup(d, key) ==
  IF key \in DOMAIN d THEN d[key]
  ELSE d[CHOOSE k \in DOMAIN d : ToUpper(k) = ToUpper(key)]

\* json.Unmarshal(raw, target): every field with a matching key is decoded;
\* a value of the wrong type leaves its field alone and makes the call
\* return an UnmarshalTypeError after the other fields are decoded
jsonProject(d, T) ==
  LET dec(f) == IF HasKey(d, f.key) THEN jsonDecode(Lookup(d, f.key), f.kind)
                ELSE <<TRUE, Zero(f.kind)>>
  IN  [err |-> IF \E i \in 1..Len(T) : ~dec(T[i])[1]
                 THEN ErrUnmarshalType ELSE NoErr,
       target |-> [n \in {T[i].name : i \in 1..Len(T)} |->
                     dec(T[CHOOSE i \in 1..Len(T) : T[i].name = n])[2]]]

\* strconv.ParseInt(s, 10, 64)
ParseInt(s) == Atoi(s)

\* an isZero that holds of every value
isZero_Always(v) == TRUE

\* reflect.DeepEqual(v.Interface(), reflect.Zero(v.Type()).Interface())
isZero(v) == v = Zero(v[1])

\* a loop body that knows no bool fields: they fall into the default case
applyDefault_NoBool(f, v) ==
  IF f.def = <<>> THEN <<"continue", v>>
  ELSE IF ~isZero(v) THEN <<"continue", v>>
  ELSE IF f.kind = "string" THEN <<"continue", StrV(f.def)>>
  ELSE IF f.kind = "int"
    THEN IF ParseInt(f.def)[1]
           THEN <<"continue", IntV(ParseInt(f.def)[2])>>
           ELSE <<"continue", v>>
  ELSE <<"return", v>>

\* the body of the loop of applyDefaults for the field f holding v: what
\* the loop does next and the value the field holds afterwards
applyDefault(f, v) ==
  IF f.def = <<>> THEN <<"continue", v>>
  ELSE IF ~isZero(v) THEN <<"continue", v>>
  ELSE IF f.kind = "string" THEN <<"continue", StrV(f.def)>>
  ELSE IF f.kind = "int"
    THEN IF ParseInt(f.def)[1]
           THEN <<"continue", IntV(ParseInt(f.def)[2])>>
           ELSE <<"continue", v>>
  ELSE IF f.kind = "bool"
    THEN IF ParseBool(f.def)[1]
           THEN <<"continue", BoolV(ParseBool(f.def)[2])>>
           ELSE <<"continue", v>>
  ELSE <<"return", v>>

\* for i := 0; i < v.NumField(); i++ { ... }
RECURSIVE applyDefaultsFrom(_, _, _)
applyDefaultsFrom(t, T, i) ==
  IF i > Len(T) THEN t
  ELSE LET step == applyDefault(T[i], t[T[i].name])
           t1   == [t EXCEPT ![T[i].name] = step[2]]
       IN  IF step[1] = "return" THEN t1
           ELSE applyDefaultsFrom(t1, T, i + 1)

applyDefaults(t, T) == applyDefaultsFrom(t, T, 1)

\* a validator whose gte and lte exclude the bound itself
RuleHolds_Exclusive(rule, v) ==
  IF rule[1] = "required" THEN v # Zero(v[1])
  ELSE LET x == IF v[1] = "int" THEN v[2] * 100
                ELSE IF v[1] = "string" THEN Len(v[2]) * 100
                ELSE v[2] * 100 + v[3]
       IN  IF rule[1] = "gte" THEN x > rule[2] * 100 ELSE x < rule[2] * 100

\* validator: required holds of a non-zero value; gte and lte compare a
\* number with n and a string's length with n
RuleHolds(rule, v) ==
  IF rule[1] = "required" THEN v # Zero(v[1])
  ELSE LET x == IF v[1] = "int" THEN v[2] * 100
                ELSE IF v[1] = "string" THEN Len(v[2]) * 100
                ELSE v[2] * 100 + v[3]
       IN  IF rule[1] = "gte" THEN x >= rule[2] * 100 ELSE x <= rule[2] * 100

\* the first rule of the field that fails, 0 when all hold
FirstFailing(rules, v) ==
  LET bad == {i \in 1..Len(rules) : ~RuleHolds(rules[i], v)}
  IN  IF bad = {} THEN 0 ELSE CHOOSE i \in bad : \A j \in bad : i <= j

\* validate.Struct(target): the failing fields in order, each with the tag
\* of its first failing rule
validateStruct(t, T) ==
  LET failing == SelectSeq(T, LAMBDA f : FirstFailing(f.rules, t[f.name]) # 0)
  IN  [i \in 1..Len(failing) |->
         <<failing[i].name,
           failing[i].rules[FirstFailing(failing[i].rules,
                                         t[failing[i].name])][1]>>]

\* an Unmarshal that validates the projected structure and applies the
\* defaults afterwards
Unmarshal_ValidateFirst(st0, T) ==
  LET st   == Enter(st0)
      proj == jsonProject(st.data, T)
  IN  IF proj.err # NoErr
        THEN {[st |-> Fail(st, proj.err), target |-> proj.target]}
        ELSE LET fails == validateStruct(proj.target, T)
                 t     == applyDefaults(proj.target, T)
             IN  IF fails # <<>>
                   THEN {[st |-> Fail(st, ErrValidation(fails)), target |-> t]}
                   ELSE {[st |-> st, target |-> t]}

\* an Unmarshal that hands back a zeroed structure when validation fails
Unmarshal_ZeroOnFailure(st0, T) ==
  LET st   == Enter(st0)
      proj == jsonProject(st.data, T)
  IN  IF proj.err # NoErr
        THEN {[st |-> Fail(st, proj.err), target |-> proj.target]}
        ELSE LET t     == applyDefaults(proj.target, T)
                 fails == validateStruct(t, T)
             IN  IF fails # <<>>
                   THEN {[st |-> Fail(st, ErrValidation(fails)),
                          target |-> ZeroTarget(T)]}
                   ELSE {[st |-> st, target |-> t]}

Unmarshal(st0, T) ==
  LET st   == Enter(st0)
      proj == jsonProject(st.data, T)
  IN  IF proj.err # NoErr
        THEN {[st |-> Fail(st, proj.err), target |-> proj.target]}
        ELSE LET t     == applyDefaults(proj.target, T)
                 fails == validateStruct(t, T)
             IN  IF fails # <<>>
                   THEN {[st |-> Fail(st, ErrValidation(fails)), target |-> t]}
                   ELSE {[st |-> st, target |-> t]}

(***************************************************************************)
(* ToJSON and ToYAML: json.MarshalIndent and yaml.Marshal of cm.data.      *)
(* Both write one entry per stored key, the keys sorted (the decoders do   *)
(* not depend on the order of distinct keys), and write a value as its     *)
(* scalar: an int as an integer literal, a float64 in the shortest form    *)
(* that reads back as the same number, which for a whole number is an      *)
(* integer literal, a string as a (quoted) string, a bool as true or       *)
(* false, nil as null.                                                     *)
(***************************************************************************)
marshalValue(v) == IF v[1] = "float" /\ v[3] = 0 THEN IntV(v[2]) ELSE v

marshalEntries(d) ==
  LET o == CHOOSE x \in RangeOrders(d) : TRUE
  IN  [i \in 1..Len(o) |-> <<o[i], marshalValue(d[o[i]])>>]

ToJSON(d) == Text("json", marshalEntries(d))

ToYAML(d) == Text("yaml", marshalEntries(d))

(***************************************************************************)
(* The inputs the callers draw from.                                       *)
(***************************************************************************)
kaP == <<"a","P">>

sPadX == <<" ","x"," ">>

pMissingEnv == <<"m",".","e","n","v">>

KeyInputs == {kAp, kAP, kaP, kN}

SetValues ==
  { StrV(s80), StrV(sPadX), StrV(sTrue), IntV(50), FloatV(1234, 0), NilV }

FilePaths ==
  { pAJson, pBYaml, pCYml, pKJson, pBadJson, pDupYaml, pTxt, pNoExt,
    pMissingYaml, pMissingTxt }

DotEnvPaths == { <<>>, pEnv, pBadEnv, pMissingEnv }

EncPaths ==
  { pJsonEnc, pYamlEnc, pShortEnc, pEmptyEnc, pBinEnc, pDupEnc, pAJson,
    pMissingTxt }

Secrets == { Secret, WrongSecret }

EnvNames == { kAp, kAP, kN, kE }

InitEnvs ==
  { EmptyMap,
    (kAP :> sFs),
    (kAp :> s80) @@ (kN :> <<>>) }

\* the paths LoadFiles is called with: two loadable files that share their
\* keys and a missing one
ListedPaths == { pAJson, pBYaml, pMissingYaml }

\* the argument lists of LoadFiles: up to MaxPaths listed paths, each path
\* at most once
PathLists ==
  { ps \in UNION {[1..n -> ListedPaths] : n \in 0..MaxPaths} :
      \A i, j \in 1..Len(ps) : i # j => ps[i] # ps[j] }

(***************************************************************************)
(* The Store as a state machine: one action per exported operation.        *)
(***************************************************************************)
Init ==
  /\ data = EmptyMap
  /\ env \in InitEnvs
  /\ call = <<"NewConfigManager">>
  /\ err = NoErr
  /\ reads = <<>>
  /\ lastw = EmptyMap
  /\ arg = NilV
  /\ pc = "run"
  /\ stats = <<>>
  /\ target = EmptyMap
  /\ out = NoBytes
  /\ copy = EmptyMap

\* the operation ends in one of the states of sts
Ends(sts) ==
  \E st \in sts :
    /\ data' = st.data
    /\ env' = st.env
    /\ err' = st.err
    /\ reads' = st.reads
    /\ lastw' = st.lastw

CallSet(key, value) ==
  /\ pc = "run"
  /\ call' = <<"Set", key, value>>
  /\ Ends(Set(Cur, key, value))
  /\ UNCHANGED <<arg, pc, stats, target, out, copy>>

CallLoadFromFile(path) ==
  /\ pc = "run"
  /\ call' = <<"LoadFromFile", path>>
  /\ Ends(LoadFromFile(Cur, path))
  /\ UNCHANGED <<arg, pc, stats, target, out, copy>>

CallLoadFiles(paths) ==
  /\ pc = "run"
  /\ call' = <<"LoadFiles", paths>>
  /\ Ends(LoadFiles(Cur, paths))
  /\ UNCHANGED <<arg, pc, stats, target, out, copy>>

CallLoadFromDotEnv(path) ==
  /\ pc = "run"
  /\ call' = <<"LoadFromDotEnv", path>>
  /\ Ends(LoadFromDotEnv(Cur, path))
  /\ UNCHANGED <<arg, pc, stats, target, out, copy>>

CallLoadFromSysEnv(key) ==
  /\ pc = "run"
  /\ call' = <<"LoadFromSysEnv", key>>
  /\ Ends(LoadFromSysEnv(Cur, key))
  /\ UNCHANGED <<arg, pc, stats, target, out, copy>>

CallLoadEncryptedFile(path, secret) ==
  /\ pc = "run"
  /\ call' = <<"LoadEncryptedFile", path, secret>>
  /\ Ends(LoadEncryptedFile(Cur, path, secret))
  /\ UNCHANGED <<arg, pc, stats, target, out, copy>>

Next ==
  \/ \E k \in KeyInputs, v \in SetValues : CallSet(k, v)
  \/ \E p \in FilePaths : CallLoadFromFile(p)
  \/ \E ps \in PathLists : CallLoadFiles(ps)
  \/ \E p \in DotEnvPaths : CallLoadFromDotEnv(p)
  \/ \E k \in EnvNames : CallLoadFromSysEnv(k)
  \/ \E p \in EncPaths, s \in Secrets : CallLoadEncryptedFile(p, s)

Spec == Init /\ [][Next]_vars

TypeOK ==
  /\ \A K \in DOMAIN data : data[K][1] \in
        {"nil", "int", "bool", "string", "float", "opaque"}
  /\ DOMAIN lastw = DOMAIN data

(***************************************************************************)
(* Normalization of one value: a caller holds a value arg, calls           *)
(* Set("ap", arg) on a new Store and then Set(k, Get(k)).  arg ranges over *)
(* every string of at most MaxLen characters of NVChars, the spellings of  *)
(* NVLiterals and the non-string values of NVOthers.                       *)
(***************************************************************************)
NVChars == {" ", "-", "+", "0", "7", "t", "F", "."}

NVLiterals ==
  { <<"t","r","u","e">>, <<"T","R","U","E">>, <<"T","r","u","e">>,
    <<"t","R","U","E">>, <<"f","a","l","s","e">>, <<"F","A","L","S","E">>,
    <<"F","a","l","s","e">>, <<"f","A","L","S","E">>,
    <<" ","t","r","u","e","\t">>, <<"1","2",".","3","4">>,
    <<"9","0","9","0">>, <<"\n","9","0","9","0"," ">>, <<"-","1","2","5">>,
    <<"T","e","s","t","A","p","p">>, <<"1","0"," ","1">> }

NVOthers ==
  { NilV, IntV(0), IntV(1234), BoolV(TRUE), BoolV(FALSE), FloatV(1234, 0),
    FloatV(0, 0), FloatV(12, 34), OpaqueV("nested") }

NVStrings == UNION {[1..n -> NVChars] : n \in 0..MaxLen} \cup NVLiterals

NVInputs == {StrV(s) : s \in NVStrings} \cup NVOthers

InitNormalize ==
  /\ data = EmptyMap
  /\ env = EmptyMap
  /\ call = <<"NewConfigManager">>
  /\ err = NoErr
  /\ reads = <<>>
  /\ lastw = EmptyMap
  /\ arg \in NVInputs
  /\ pc = "input"
  /\ stats = <<>>
  /\ target = EmptyMap
  /\ out = NoBytes
  /\ copy = EmptyMap

\* cm.Set("ap", arg)
SetArg ==
  /\ pc = "input"
  /\ pc' = "set"
  /\ call' = <<"Set", kAp, arg>>
  /\ Ends(Set(Cur, kAp, arg))
  /\ UNCHANGED <<arg, stats, target, out, copy>>

\* cm.Set(key, cm.Get(key))
SetAgain(key) ==
  /\ pc = "set"
  /\ pc' = "again"
  /\ call' = <<"Set", key, Get(data, key)>>
  /\ Ends(Set(Cur, key, Get(data, key)))
  /\ UNCHANGED <<arg, stats, target, out, copy>>

NextNormalize ==
  \/ SetArg
  \/ \E k \in KeyInputs : SetAgain(k)

SpecNormalize == InitNormalize /\ [][NextNormalize]_vars

(***************************************************************************)
(* The Profile Resolver: a caller whose environment holds the profile      *)
(* variable E (unset, empty, dev, or x) or n (dev), calling Set and       *)
(* LoadWithProfile on one Store.  Loading the dot-env files sets n.        *)
(***************************************************************************)
ProfileEnvs ==
  { EmptyMap, (kE :> <<>>), (kE :> sDev), (kE :> sX), (kN :> sDev) }

ProfileKeys == { kE, kN }

BasePaths ==
  { pAJson, pBYaml, pKJson, pCYml, pEnv, pTxt, pMissingYaml, pMissingEnv }

ProfileSetValues == { IntV(50), StrV(sX) }

InitProfile ==
  /\ data = EmptyMap
  /\ env \in ProfileEnvs
  /\ call = <<"NewConfigManager">>
  /\ err = NoErr
  /\ reads = <<>>
  /\ lastw = EmptyMap
  /\ arg = NilV
  /\ pc = "run"
  /\ stats = <<>>
  /\ target = EmptyMap
  /\ out = NoBytes
  /\ copy = EmptyMap

CallLoadWithProfile(envKey, baseFile) ==
  /\ pc = "run"
  /\ call' = <<"LoadWithProfile", envKey, baseFile>>
  /\ \E r \in LoadWithProfile(Cur, envKey, baseFile) :
       /\ data' = r.st.data
       /\ env' = r.st.env
       /\ err' = r.st.err
       /\ reads' = r.st.reads
       /\ lastw' = r.st.lastw
       /\ stats' = r.stats
  /\ UNCHANGED <<arg, pc, target, out, copy>>

NextProfile ==
  \/ \E k \in {kAp, kN}, v \in ProfileSetValues : CallSet(k, v)
  \/ \E k \in ProfileKeys, b \in BasePaths : CallLoadWithProfile(k, b)

SpecProfile == InitProfile /\ [][NextProfile]_vars

(***************************************************************************)
(* Export and reload: a caller that fills one Store, exports it with       *)
(* ToJSON or ToYAML, writes the bytes to o.json or o.yaml, and has a new   *)
(* ConfigManager load that file.                                           *)
(***************************************************************************)
pOutJson == <<"o",".","j","s","o","n">>

pOutYaml == <<"o",".","y","a","m","l">>

ExportSetValues ==
  { StrV(s80), StrV(sPadX), StrV(sTrue), IntV(50), FloatV(1, 50), NilV }

InitExport ==
  /\ data = EmptyMap
  /\ env \in InitEnvs
  /\ call = <<"NewConfigManager">>
  /\ err = NoErr
  /\ reads = <<>>
  /\ lastw = EmptyMap
  /\ arg = NilV
  /\ pc = "run"
  /\ stats = <<>>
  /\ target = EmptyMap
  /\ out = NoBytes
  /\ copy = EmptyMap

CallToJSON ==
  /\ pc = "run"
  /\ pc' = "exported"
  /\ call' = <<"ToJSON">>
  /\ out' = ToJSON(data)
  /\ err' = NoErr
  /\ reads' = <<>>
  /\ UNCHANGED <<data, env, lastw, arg, stats, target, copy>>

CallToYAML ==
  /\ pc = "run"
  /\ pc' = "exported"
  /\ call' = <<"ToYAML">>
  /\ out' = ToYAML(data)
  /\ err' = NoErr
  /\ reads' = <<>>
  /\ UNCHANGED <<data, env, lastw, arg, stats, target, copy>>

\* NewConfigManager().LoadFromFile(path), where path holds the bytes of out
CallLoadExported(path) ==
  /\ pc = "exported"
  /\ path = IF call = <<"ToJSON">> THEN pOutJson ELSE pOutYaml
  /\ pc' = "reloaded"
  /\ call' = <<"LoadExported", path>>
  /\ \E st \in decodeFile(
                  Read([data |-> EmptyMap, env |-> env, err |-> NoErr,
                        reads |-> <<>>, lastw |-> EmptyMap], path),
                  path, out) :
       /\ copy' = st.data
       /\ err' = st.err
       /\ reads' = st.reads
  /\ UNCHANGED <<data, env, lastw, arg, stats, target, out>>

NextExport ==
  \/ \E k \in {kAp, kN}, v \in ExportSetValues : CallSet(k, v)
  \/ \E p \in {pAJson, pBYaml} : CallLoadFromFile(p)
  \/ \E k \in {kAp, kAP, kN} : CallLoadFromSysEnv(k)
  \/ CallToJSON
  \/ CallToYAML
  \/ \E p \in {pOutJson, pOutYaml} : CallLoadExported(p)

SpecExport == InitExport /\ [][NextExport]_vars

(***************************************************************************)
(* The Typed Projector: a caller that fills one Store with Set and then    *)
(* projects it with Unmarshal onto a new (zero) structure of one of the    *)
(* types of Schemas.                                                       *)
(***************************************************************************)
kD == <<"D">>

kR == <<"R">>

sSvc == <<"s","v","c">>

s8080 == <<"8","0","8","0">>

Required == <<"required", 0>>

Gte(n) == <<"gte", n>>

Lte(n) == <<"lte", n>>

\* AppConfig: a string, an int and a bool field, each with a default
AppCfg ==
  << Field("Name", <<"N">>, "string", sSvc, <<Required>>),
     Field("Port", kAP, "int", s8080, <<Gte(1000), Lte(9999)>>),
     Field("Debug", kD, "bool", sTrue, <<>>) >>

\* the same rules without defaults
NoDefaults ==
  << Field("Name", <<"N">>, "string", <<>>, <<Required>>),
     Field("Port", kAP, "int", <<>>, <<Gte(1000), Lte(9999)>>) >>

\* a float field with a default tag before an int and a string field
RateFirst ==
  << Field("Rate", kR, "float", <<"1",".","5">>, <<>>),
     Field("Port", kAP, "int", s8080, <<>>),
     Field("Name", <<"N">>, "string", sSvc, <<>>) >>

\* an int and a bool field with literals that do not parse, before a
\* string field
BadLiteral ==
  << Field("Port", kAP, "int", <<"a","b","c">>, <<>>),
     Field("Debug", kD, "bool", <<"y","e","s">>, <<>>),
     Field("Name", <<"N">>, "string", sSvc, <<>>) >>

\* one string field without default and rules
Plain == << Field("Name", <<"N">>, "string", <<>>, <<>>) >>

Schemas ==
  [AppCfg |-> AppCfg, NoDefaults |-> NoDefaults, RateFirst |-> RateFirst,
   BadLiteral |-> BadLiteral, Plain |-> Plain]

\* the calls of Set: key and value
UnmarshalSets ==
  { <<kAp, IntV(0)>>, <<kAp, IntV(999)>>, <<kAp, IntV(1000)>>,
    <<kAp, IntV(9999)>>, <<kAp, IntV(10000)>>, <<kAp, StrV(sX)>>,
    <<kN, StrV(<<>>)>>, <<kN, StrV(sPadX)>>, <<kN, StrV(s80)>>,
    <<kN, StrV(sTrue)>>,
    <<kD, StrV(sTrue)>>, <<kD, BoolV(FALSE)>>,
    <<kR, FloatV(1, 50)>> }

InitUnmarshal ==
  /\ data = EmptyMap
  /\ env = EmptyMap
  /\ call = <<"NewConfigManager">>
  /\ err = NoErr
  /\ reads = <<>>
  /\ lastw = EmptyMap
  /\ arg = NilV
  /\ pc = "run"
  /\ stats = <<>>
  /\ target = EmptyMap
  /\ out = NoBytes
  /\ copy = EmptyMap

\* var cfg T; cm.Unmarshal(&cfg)
CallUnmarshal(T) ==
  /\ pc = "run"
  /\ pc' = "projected"
  /\ call' = <<"Unmarshal", T>>
  /\ \E r \in Unmarshal(Cur, Schemas[T]) :
       /\ data' = r.st.data
       /\ env' = r.st.env
       /\ err' = r.st.err
       /\ reads' = r.st.reads
       /\ lastw' = r.st.lastw
       /\ target' = r.target
  /\ UNCHANGED <<arg, stats, out, copy>>

NextUnmarshal ==
  \/ \E kv \in UnmarshalSets : CallSet(kv[1], kv[2])
  \/ \E T \in DOMAIN Schemas : CallUnmarshal(T)

SpecUnmarshal == InitUnmarshal /\ [][NextUnmarshal]_vars

(***************************************************************************)
(* C1. Last-load-wins: in every reachable state, the value Get returns for *)
(* a stored key is the value written by the last operation that carried    *)
(* the key (compared after uppercasing), whatever kinds of operation wrote *)
(* it before: a Set or a merging load writes the normalized form of a      *)
(* value it carried for the key, LoadFromSysEnv the uppercased string.     *)
(* The keys of the Store are exactly the keys some operation carried.      *)
(***************************************************************************)
C1_Written(w) ==
  { IF w.op = "LoadFromSysEnv" THEN StrV(ToUpper(r[2])) ELSE normalizeValue(r) :
      r \in w.raws }

C1_LastLoadWins ==
  /\ DOMAIN data = DOMAIN lastw
  /\ \A K \in DOMAIN data : Get(data, K) \in C1_Written(lastw[K])

\* the YAML file d/c.YML (ap: "80") has just overwritten AP, which an
\* earlier LoadFromDotEnv(".env") had set together with N: a structured
\* file wins over the dot-env file loaded before it
C1_Witness ==
  /\ call = <<"LoadFromFile", pCYml>>
  /\ err = NoErr
  /\ DOMAIN data = {kAP, <<"N">>}
  /\ lastw[kAP].op = "LoadFromFile"
  /\ data[kAP] = IntV(80)
  /\ lastw[<<"N">>].op = "LoadFromDotEnv"

(***************************************************************************)
(* C2. Key lookup is case-insensitive in every reachable state: for every  *)
(* key string k, Get(k) equals Get(normalizeKey(k)) and equals Get of      *)
(* every other letter-case variant of k, and every key held in the Store   *)
(* is uppercase.                                                           *)
(***************************************************************************)
C2_IsUpperCase(K) == \A i \in 1..Len(K) : \A j \in 1..26 : K[i] # LowerLetters[j]

C2_SameLetters(k1, k2) ==
  /\ Len(k1) = Len(k2)
  /\ \A i \in 1..Len(k1) :
       \/ k1[i] = k2[i]
       \/ \E j \in 1..26 : {k1[i], k2[i]} = {LowerLetters[j], UpperLetters[j]}

C2_CaseInsensitive ==
  /\ \A K \in DOMAIN data : C2_IsUpperCase(K)
  /\ \A k \in KeyInputs : Get(data, k) = Get(data, normalizeKey(k))
  /\ \A k1, k2 \in KeyInputs \cup DOMAIN data :
       C2_SameLetters(k1, k2) => Get(data, k1) = Get(data, k2)
  /\ \A K \in DOMAIN data : \A k \in KeyInputs :
       C2_SameLetters(k, K) => Get(data, k) = data[K]

\* Set("aP", "80") stored 80 and Get("ap") returns it
C2_Witness ==
  /\ call = <<"Set", kaP, StrV(s80)>>
  /\ Get(data, kAp) = IntV(80)
  /\ kaP \notin DOMAIN data

(***************************************************************************)
(* C3. Merging is Set per entry: a successful load by the structured-file, *)
(* dot-env or encrypted-file loader of a source that decodes to the flat   *)
(* map M leaves the Store as calling Set(k, M[k]) for every key k of M     *)
(* does, so that loaded values are coerced as Set coerces them: dot-env    *)
(* text 9090 is stored as integer 9090, text true as boolean true, and the *)
(* JSON number 1234 as integer 1234.                                       *)
(***************************************************************************)
RECURSIVE C3_SetInOrder(_, _, _)
C3_SetInOrder(d, M, order) ==
  IF order = <<>> THEN d
  ELSE C3_SetInOrder(SetData(d, Head(order), M[Head(order)]), M, Tail(order))

C3_SetEach(d, M) == {C3_SetInOrder(d, M, o) : o \in RangeOrders(M)}

\* the flat map the source at path decodes to
C3_FileMap(path) ==
  IF ToLower(Ext(path)) = DotJson THEN jsonUnmarshal(FS[path]).tmp
  ELSE yamlUnmarshal(FS[path]).tmp

C3_EncMap(path) ==
  IF HasSuffix(path, DotJson \o DotEnc) THEN jsonUnmarshal(FS[path].plain).tmp
  ELSE yamlUnmarshal(FS[path].plain).tmp

C3_LoadIsSetEach ==
  /\ \A p \in FilePaths :
       (call' = <<"LoadFromFile", p>> /\ err' = NoErr)
         => data' \in C3_SetEach(data, C3_FileMap(p))
  /\ \A p \in DotEnvPaths :
       (call' = <<"LoadFromDotEnv", p>> /\ err' = NoErr)
         => data' \in C3_SetEach(data, godotenvRead(
                                          IF p = <<>> THEN pEnv ELSE p).tmp)
  /\ \A p \in EncPaths : \A s \in Secrets :
       (call' = <<"LoadEncryptedFile", p, s>> /\ err' = NoErr)
         => data' \in C3_SetEach(data, C3_EncMap(p))

C3_Examples ==
  /\ (call' = <<"LoadFromDotEnv", pEnv>> /\ err' = NoErr)
       => /\ Get(data', kAp) = IntV(9090)
          /\ Get(data', kN) = BoolV(TRUE)
  /\ (call' = <<"LoadFromFile", pAJson>> /\ err' = NoErr)
       => Get(data', kAp) = IntV(1234)

C3_MergeIsSetPerEntry == [][C3_LoadIsSetEach /\ C3_Examples]_vars

(***************************************************************************)
(* C4. normalizeValue on a string: the string is whitespace-trimmed; if    *)
(* the trimmed string is a base-10 integer (an optional sign and digits)   *)
(* the result is that integer; otherwise, if it is a boolean literal, the  *)
(* result is that boolean; otherwise the result is the trimmed string.     *)
(* No string produces an error.                                            *)
(*  - C4_AnyCaseBoolean: the boolean literals are true and false in any    *)
(*    letter case (the claim as made);                                     *)
(*  - C4_StringCoercion: the boolean literals are the spellings accepted   *)
(*    by strconv.ParseBool: t, T, true, TRUE, True, f, F, false, FALSE,    *)
(*    False (1 and 0 are integers); any other spelling stays a string.     *)
(***************************************************************************)
C4_Blank == {" ", "\t", "\n", "\r"}

C4_Trimmed(s) ==
  LET lead == CHOOSE a \in 0..Len(s) :
                /\ \A i \in 1..a : s[i] \in C4_Blank
                /\ a = Len(s) \/ s[a + 1] \notin C4_Blank
      rest == SubSeq(s, lead + 1, Len(s))
      trail == CHOOSE b \in 0..Len(rest) :
                 /\ \A i \in (Len(rest) - b + 1)..Len(rest) : rest[i] \in C4_Blank
                 /\ b = Len(rest) \/ rest[Len(rest) - b] \notin C4_Blank
  IN  SubSeq(rest, 1, Len(rest) - trail)

C4_DigitOf ==
  ("0" :> 0) @@ ("1" :> 1) @@ ("2" :> 2) @@ ("3" :> 3) @@ ("4" :> 4) @@
  ("5" :> 5) @@ ("6" :> 6) @@ ("7" :> 7) @@ ("8" :> 8) @@ ("9" :> 9)

C4_Unsigned(t) ==
  IF t # <<>> /\ t[1] \in {"+", "-"} THEN SubSeq(t, 2, Len(t)) ELSE t

C4_IsInteger(t) ==
  /\ C4_Unsigned(t) # <<>>
  /\ \A i \in 1..Len(C4_Unsigned(t)) : C4_Unsigned(t)[i] \in DOMAIN C4_DigitOf

RECURSIVE C4_Pow10(_)
C4_Pow10(n) == IF n = 0 THEN 1 ELSE 10 * C4_Pow10(n - 1)

RECURSIVE C4_Sum(_, _)
C4_Sum(ds, i) ==
  IF i > Len(ds) THEN 0
  ELSE C4_DigitOf[ds[i]] * C4_Pow10(Len(ds) - i) + C4_Sum(ds, i + 1)

C4_IntegerOf(t) ==
  IF t[1] = "-" THEN 0 - C4_Sum(C4_Unsigned(t), 1) ELSE C4_Sum(C4_Unsigned(t), 1)

C4_TrueSpellings ==
  { <<"t">>, <<"T">>, <<"t","r","u","e">>, <<"T","R","U","E">>,
    <<"T","r","u","e">> }

C4_FalseSpellings ==
  { <<"f">>, <<"F">>, <<"f","a","l","s","e">>, <<"F","A","L","S","E">>,
    <<"F","a","l","s","e">> }

C4_Coerced(s) ==
  LET t == C4_Trimmed(s)
  IN  IF C4_IsInteger(t) THEN IntV(C4_IntegerOf(t))
      ELSE IF t \in C4_TrueSpellings THEN BoolV(TRUE)
      ELSE IF t \in C4_FalseSpellings THEN BoolV(FALSE)
      ELSE StrV(t)

C4_CoercedAnyCase(s) ==
  LET t == C4_Trimmed(s)
  IN  IF C4_IsInteger(t) THEN IntV(C4_IntegerOf(t))
      ELSE IF ToLower(t) = <<"t","r","u","e">> THEN BoolV(TRUE)
      ELSE IF ToLower(t) = <<"f","a","l","s","e">> THEN BoolV(FALSE)
      ELSE StrV(t)

C5_Narrowed(v) ==
  IF v[1] = "float" /\ v[3] = 0 THEN IntV(v[2]) ELSE v

C5_FloatNarrowing ==
  (pc = "set" /\ ~IsStr(arg)) => Get(data, kAp) = C5_Narrowed(arg)

(***************************************************************************)
(* C6. Value normalization is idempotent: normalizing the value Set has    *)
(* stored returns the same value.                                          *)
(*  - C6_SetGetNeverChanges: consequently Set(k, Get(k)) never changes the *)
(*    Store (the claim as made);                                           *)
(*  - C6_Idempotent: consequently Set(k, Get(k)) leaves the Store          *)
(*    unchanged for every key k the Store holds.                           *)
(***************************************************************************)
C6_StoredIsNormal ==
  pc = "set" => normalizeValue(Get(data, kAp)) = Get(data, kAp)

C6_Idempotent ==
  /\ []C6_StoredIsNormal
  /\ [][\A k \in KeyInputs :
          (SetAgain(k) /\ normalizeKey(k) \in DOMAIN data) => data' = data]_vars

C6_SetGetNeverChanges ==
  /\ []C6_StoredIsNormal
  /\ [][\A k \in KeyInputs : SetAgain(k) => data' = data]_vars

\* Set("AP", Get("AP")) after Set("ap", " 7 "): the Store still holds 7
C6_Witness ==
  /\ pc = "again"
  /\ arg = StrV(<<" ","7"," ">>)
  /\ call = <<"Set", kAP, IntV(7)>>
  /\ data = (kAP :> IntV(7))

(***************************************************************************)
(* C7. System-env loader asymmetry: when the variable v is present in the  *)
(* process environment with value s, LoadFromSysEnv(v) stores under the    *)
(* key uppercase(v) the uppercased string of s, overwriting any earlier    *)
(* value, and coerces nothing: the stored value is always a string (Fs is  *)
(* stored as "FS", 80 as the string "80" and not the integer).             *)
(***************************************************************************)
C7_Present(k) ==
  (call' = <<"LoadFromSysEnv", k>> /\ k \in DOMAIN env)
    => /\ data' = Put(data, ToUpper(k), StrV(ToUpper(env[k])))
       /\ Get(data', k)[1] = "string"
       /\ env[k] = sFs => Get(data', k) = StrV(<<"F","S">>)
       /\ env[k] = s80 => Get(data', k) = StrV(<<"8","0">>)

C7_SysEnvStoresUpperString == [][\A k \in EnvNames : C7_Present(k)]_vars

\* LoadFromSysEnv("ap") with ap=80 in the environment was the last write
\* of AP, and AP holds the string "80"
C7_Witness ==
  /\ call = <<"LoadFromSysEnv", kAp>>
  /\ kAp \in DOMAIN env
  /\ env[kAp] = s80
  /\ kAP \in DOMAIN lastw
  /\ lastw[kAP].op = "LoadFromSysEnv"
  /\ Get(data, kAP) = StrV(s80)

(***************************************************************************)
(* C8. LoadFromSysEnv of a variable that is absent from the process        *)
(* environment returns without failing and leaves the Store unchanged: no  *)
(* key is added, not even the requested name, and no entry is modified.    *)
(***************************************************************************)
C8_Absent(k) ==
  (call' = <<"LoadFromSysEnv", k>> /\ k \notin DOMAIN env)
    => /\ data' = data
       /\ normalizeKey(k) \notin DOMAIN data => normalizeKey(k) \notin DOMAIN data'
       /\ err' = NoErr
       /\ env' = env

C8_AbsentVariableSkipped == [][\A k \in EnvNames : C8_Absent(k)]_vars

\* LoadFromSysEnv("E") with no E in the environment, on a Store that
\* holds AP and N but not E
C8_Witness ==
  /\ call = <<"LoadFromSysEnv", kE>>
  /\ kE \notin DOMAIN env
  /\ DOMAIN data = {kAP, <<"N">>}
  /\ err = NoErr

(***************************************************************************)
(* C9. Structured-file loader dispatch: LoadFromFile selects the decoder   *)
(* from the extension of the path compared case-insensitively (.json,      *)
(* .yaml, .yml); with any other extension the call fails with an           *)
(* unsupported-file-type error that names the extension and merges         *)
(* nothing.                                                                *)
(*  - C9_EveryOtherPathUnsupported: this holds of every path (the claim as *)
(*    made);                                                               *)
(*  - C9_Dispatch: this holds of every path whose file can be read; the    *)
(*    error names the extension in lower case; when the file cannot be     *)
(*    read the call returns the read error, whatever the extension, and    *)
(*    merges nothing.                                                      *)
(***************************************************************************)
C9_HasExt(path, e) == C2_SameLetters(Ext(path), e)

C9_Decoded(path) ==
  IF C9_HasExt(path, DotJson) THEN jsonUnmarshal(FS[path])
  ELSE yamlUnmarshal(FS[path])

C9_Supported(path) ==
  \E e \in {DotJson, DotYaml, DotYml} : C9_HasExt(path, e)

C9_DecoderSelected(path) ==
  /\ err' = C9_Decoded(path).err
  /\ err' = NoErr => data' \in Merge(data, C9_Decoded(path).tmp)
  /\ err' # NoErr => data' = data

C9_Unsupported(path) ==
  /\ err' = ErrUnsupported(ToLower(Ext(path)))
  /\ data' = data

C9_Dispatch ==
  [][\A p \in FilePaths :
       call' = <<"LoadFromFile", p>> =>
         IF ~Exists(p) THEN err' = ErrOpen(p) /\ data' = data
         ELSE IF C9_Supported(p) THEN C9_DecoderSelected(p)
         ELSE C9_Unsupported(p)]_vars

C9_EveryOtherPathUnsupported ==
  [][\A p \in FilePaths :
       call' = <<"LoadFromFile", p>> =>
         IF C9_Supported(p) THEN Exists(p) => C9_DecoderSelected(p)
         ELSE C9_Unsupported(p)]_vars

\* LoadFromFile("t.Txt") on a Store holding AP and N has failed, naming
\* the extension .txt
C9_Witness ==
  /\ call = <<"LoadFromFile", pTxt>>
  /\ err = ErrUnsupported(<<".","t","x","t">>)
  /\ DOMAIN data = {kAP, <<"N">>}

(***************************************************************************)
(* C10. LoadFiles(p1..pn) loads the paths in the given order and does not  *)
(* roll back: if pi is the first path whose load fails, the call returns   *)
(* the error of that load, no path after pi is read, and the Store holds   *)
(* the content of p1..p(i-1) merged in this order on top of the Store as   *)
(* it was; when every load succeeds, every key that some file contains     *)
(* holds the value of the last file that contains it and every other key   *)
(* is as it was.                                                           *)
(***************************************************************************)
\* the states a sequence of separate LoadFromFile calls ends in
RECURSIVE C10_OneByOne(_, _)
C10_OneByOne(sts, paths) ==
  IF paths = <<>> THEN sts
  ELSE C10_OneByOne(UNION {LoadFromFile(st, Head(paths)) : st \in sts},
                    Tail(paths))

\* what LoadFromFile(path) makes of a new Store, for every listed path
C10_Alone ==
  [p \in ListedPaths |->
     LoadFromFile([data |-> EmptyMap, env |-> EmptyMap, err |-> NoErr,
                   reads |-> <<>>, lastw |-> EmptyMap], p)]

C10_Fails == [p \in ListedPaths |-> \A st \in C10_Alone[p] : st.err # NoErr]

\* the stored keys the file at a path contains
C10_Keys ==
  [p \in ListedPaths |-> UNION {DOMAIN st.data : st \in C10_Alone[p]}]

C10_FirstFailure(paths) ==
  IF \A i \in 1..Len(paths) : ~C10_Fails[paths[i]] THEN 0
  ELSE CHOOSE i \in 1..Len(paths) :
         /\ C10_Fails[paths[i]]
         /\ \A j \in 1..(i - 1) : ~C10_Fails[paths[j]]

C10_LastWith(paths, K) ==
  CHOOSE i \in 1..Len(paths) :
    /\ K \in C10_Keys[paths[i]]
    /\ \A j \in (i + 1)..Len(paths) : K \notin C10_Keys[paths[j]]

C10_Stopped(paths, i) ==
  /\ err' \in {st.err : st \in C10_Alone[paths[i]]}
  /\ reads' = SubSeq(paths, 1, i)
  /\ data' \in {st.data : st \in C10_OneByOne({Cur}, SubSeq(paths, 1, i - 1))}

C10_AllLoaded(paths) ==
  /\ err' = NoErr
  /\ reads' = paths
  /\ data' \in {st.data : st \in C10_OneByOne({Cur}, paths)}
  /\ \A K \in DOMAIN data' :
       IF \E i \in 1..Len(paths) : K \in C10_Keys[paths[i]]
         THEN data'[K] \in
                {st.data[K] : st \in C10_Alone[paths[C10_LastWith(paths, K)]]}
         ELSE K \in DOMAIN data /\ data'[K] = data[K]

C10_LoadFilesInOrder ==
  [][\A ps \in PathLists :
       call' = <<"LoadFiles", ps>> =>
         LET i == C10_FirstFailure(ps)
         IN  IF i = 0 THEN C10_AllLoaded(ps) ELSE C10_Stopped(ps, i)]_vars

\* LoadFiles("a.json", "m.yaml") with m.yaml missing: the call reports
\* m.yaml and what a.json held is in the Store
C10_Witness ==
  /\ call = <<"LoadFiles", <<pAJson, pMissingYaml>>>>
  /\ err = ErrOpen(pMissingYaml)
  /\ reads = <<pAJson, pMissingYaml>>
  /\ data = (kAP :> FloatV(1234, 0)) @@ (<<"N">> :> StrV(sX))

(***************************************************************************)
(* C11. LoadWithProfile with the named environment variable unset or empty *)
(* loads only the base file (dot-env loader when the extension is .env,    *)
(* structured-file loader otherwise) and returns that load's result; no    *)
(* profile file is probed or read, even when a file matching the profile   *)
(* naming convention is on disk, so the Store is the result of loading the *)
(* base file alone.                                                        *)
(***************************************************************************)
\* the states a load of the base file alone ends in
C11_BaseAlone(b) ==
  IF ToLower(Ext(b)) = DotEnv
    THEN LoadFromDotEnv(Cur, b)
    ELSE LoadFromFile(Cur, b)

C11_EndsAs(sts) ==
  \E st \in sts :
    /\ data' = st.data
    /\ env' = st.env
    /\ err' = st.err
    /\ reads' = st.reads

C11_Unset(k, b) ==
  (call' = <<"LoadWithProfile", k, b>> /\ (k \notin DOMAIN env \/ env[k] = <<>>))
    => /\ C11_EndsAs(C11_BaseAlone(b))
       /\ stats' = <<>>
       /\ \A i \in 1..Len(reads') : reads'[i] = b

C11_UnsetLoadsBaseOnly ==
  [][\A k \in ProfileKeys, b \in BasePaths : C11_Unset(k, b)]_vars

\* E is empty, b-dev.yaml is on disk, and LoadWithProfile("E", "b.yaml")
\* has read b.yaml only and left the Store with the content of b.yaml
C11_Witness ==
  /\ call = <<"LoadWithProfile", kE, pBYaml>>
  /\ kE \in DOMAIN env
  /\ env[kE] = <<>>
  /\ Exists(pBDevYaml)
  /\ reads = <<pBYaml>>
  /\ err = NoErr
  /\ data = (kAP :> IntV(80)) @@ (<<"N">> :> BoolV(TRUE))

(***************************************************************************)
(* C12. Profile overlay: when the environment variable has the non-empty   *)
(* value e and the profile file exists (the base path without its          *)
(* extension, then -e and the extension, for .json/.yaml/.yml in any       *)
(* letter case; the base path then .e for .env), a successful              *)
(* LoadWithProfile leaves the Store as loading the base file and then the  *)
(* profile file with the same loader leaves it: every key of the profile   *)
(* holds the profile's value and every base key absent from the profile    *)
(* keeps the base value.                                                   *)
(***************************************************************************)
C12_Structured(b) == ToLower(Ext(b)) \in {DotJson, DotYaml, DotYml}

C12_Stem(b) == SubSeq(b, 1, Len(b) - Len(Ext(b)))

\* the profile paths of the naming convention: the extension as written in
\* the base path, or in lower case
C12_ProfilePaths(b, e) ==
  IF ToLower(Ext(b)) = DotEnv THEN {b \o <<".">> \o e}
  ELSE { C12_Stem(b) \o <<"-">> \o e \o Ext(b),
         C12_Stem(b) \o <<"-">> \o e \o ToLower(Ext(b)) }

C12_Load(st, p, dotenv) ==
  IF dotenv THEN LoadFromDotEnv(st, p) ELSE LoadFromFile(st, p)

C12_BaseThenProfile(b, p) ==
  LET dotenv == ToLower(Ext(b)) = DotEnv
      base   == {st \in C12_Load(Cur, b, dotenv) : st.err = NoErr}
  IN  {st \in UNION {C12_Load(x, p, dotenv) : x \in base} : st.err = NoErr}

C12_NewStore ==
  [data |-> EmptyMap, env |-> EmptyMap, err |-> NoErr, reads |-> <<>>,
   lastw |-> EmptyMap]

\* what a file holds: the Stores a load of it alone yields
C12_Content(p, dotenv) == {st.data : st \in C12_Load(C12_NewStore, p, dotenv)}

C12_Keys(p, dotenv) == UNION {DOMAIN d : d \in C12_Content(p, dotenv)}

C12_Values(p, dotenv, K) ==
  {d[K] : d \in {x \in C12_Content(p, dotenv) : K \in DOMAIN x}}

C12_Overlay(k, b) ==
  (/\ call' = <<"LoadWithProfile", k, b>>
   /\ k \in DOMAIN env
   /\ env[k] # <<>>
   /\ (C12_Structured(b) \/ ToLower(Ext(b)) = DotEnv)
   /\ err' = NoErr)
    => \A p \in C12_ProfilePaths(b, env[k]) :
         Exists(p) =>
           LET dotenv == ToLower(Ext(b)) = DotEnv
           IN  /\ data' \in {st.data : st \in C12_BaseThenProfile(b, p)}
               /\ \A K \in C12_Keys(p, dotenv) :
                    /\ K \in DOMAIN data'
                    /\ data'[K] \in C12_Values(p, dotenv, K)
               /\ \A K \in C12_Keys(b, dotenv) \ C12_Keys(p, dotenv) :
                    /\ K \in DOMAIN data'
                    /\ data'[K] \in C12_Values(b, dotenv, K)

C12_ProfileOverlay ==
  [][\A k \in ProfileKeys, b \in BasePaths : C12_Overlay(k, b)]_vars

(***************************************************************************)
(* C13. A missing profile file is not an error: when the environment       *)
(* variable is non-empty, the base file loads successfully and the profile *)
(* file does not exist (neither the path of the naming convention nor the  *)
(* path LoadWithProfile probes), LoadWithProfile returns success, reads    *)
(* the base file only, and the Store is the result of loading the base     *)
(* file alone.                                                             *)
(***************************************************************************)
C13_Missing(k, b) ==
  (/\ call' = <<"LoadWithProfile", k, b>>
   /\ k \in DOMAIN env
   /\ env[k] # <<>>
   /\ (C12_Structured(b) \/ ToLower(Ext(b)) = DotEnv)
   /\ \E st \in C11_BaseAlone(b) : st.err = NoErr
   /\ \A p \in C12_ProfilePaths(b, env[k]) : ~Exists(p)
   /\ \A i \in 1..Len(stats') : ~Exists(stats'[i]))
    => /\ err' = NoErr
       /\ C11_EndsAs(C11_BaseAlone(b))
       /\ reads' = <<b>>

C13_MissingProfileIsNoError ==
  [][\A k \in ProfileKeys, b \in BasePaths : C13_Missing(k, b)]_vars

\* E is dev, there is no a-dev.json, and LoadWithProfile("E", "a.json") has
\* probed a-dev.json, returned nil and left the content of a.json
C13_Witness ==
  /\ call = <<"LoadWithProfile", kE, pAJson>>
  /\ kE \in DOMAIN env
  /\ env[kE] = sDev
  /\ stats = << <<"a","-","d","e","v",".","j","s","o","n">> >>
  /\ ~Exists(stats[1])
  /\ err = NoErr
  /\ reads = <<pAJson>>
  /\ data = (kAP :> FloatV(1234, 0)) @@ (<<"N">> :> StrV(sX))

(***************************************************************************)
(* C14. Profile path construction for structured files: the extension of   *)
(* the base file is recognised case-insensitively, and for every base path *)
(* with extension .json/.yaml/.yml in any letter case and environment      *)
(* value e, the profile path that is probed and loaded is the base path    *)
(* with its extension removed, followed by -e and the extension (b.yaml    *)
(* with dev gives b-dev.yaml; the extension is removed from the stem also  *)
(* when it is written in upper case).                                      *)
(***************************************************************************)
C14_Probe(k, b) ==
  (/\ call' = <<"LoadWithProfile", k, b>>
   /\ k \in DOMAIN env
   /\ env[k] # <<>>
   /\ C12_Structured(b)
   /\ \E st \in C11_BaseAlone(b) : st.err = NoErr)
    => /\ stats' \in {<<p>> : p \in C12_ProfilePaths(b, env[k])}
       /\ (b = pBYaml /\ env[k] = sDev) => stats' = <<pBDevYaml>>
       /\ reads' = IF Exists(stats'[1]) THEN <<b, stats'[1]>> ELSE <<b>>

C14_ProfilePathConstruction ==
  [][\A k \in ProfileKeys, b \in BasePaths : C14_Probe(k, b)]_vars

(***************************************************************************)
(* C15. Dot-env side effect: a successful LoadFromDotEnv writes every      *)
(* parsed KEY=VALUE pair both into the Store (uppercased key, coerced      *)
(* value) and into the process environment (key and raw value as written   *)
(* in the file); a failing LoadFromDotEnv (missing or malformed file)      *)
(* writes neither.                                                         *)
(***************************************************************************)
C15_Path(p) == IF p = <<>> THEN DotEnv ELSE p

C15_WellFormed(p) == Exists(C15_Path(p)) /\ FS[C15_Path(p)].syntax = "env"

C15_Pairs(p) ==
  LET ents == FS[C15_Path(p)].entries
  IN  {<<k, LastOf(ents, k)[2]>> : k \in EntryKeys(ents)}

C15_Loaded(p) ==
  /\ err' = NoErr
  /\ \A kv \in C15_Pairs(p) :
       /\ kv[1] \in DOMAIN env'
       /\ env'[kv[1]] = kv[2]
       /\ ToUpper(kv[1]) \in DOMAIN data'
       /\ data'[ToUpper(kv[1])] \in
            {normalizeValue(StrV(x[2])) :
               x \in {y \in C15_Pairs(p) : ToUpper(y[1]) = ToUpper(kv[1])}}
  /\ \A n \in DOMAIN env' \ {kv[1] : kv \in C15_Pairs(p)} :
       n \in DOMAIN env /\ env'[n] = env[n]
  /\ \A K \in DOMAIN data' \ {ToUpper(kv[1]) : kv \in C15_Pairs(p)} :
       K \in DOMAIN data /\ data'[K] = data[K]

C15_Step(p) ==
  call' = <<"LoadFromDotEnv", p>>
    => IF C15_WellFormed(p)
         THEN C15_Loaded(p)
         ELSE /\ err' # NoErr
              /\ data' = data
              /\ env' = env

C15_DotEnvSideEffect == [][\A p \in DotEnvPaths : C15_Step(p)]_vars

\* after LoadFromDotEnv(".env") the environment holds the raw 9090 and
\* true, the Store the integer 9090 and the boolean true
C15_Witness ==
  /\ call = <<"LoadFromDotEnv", pEnv>>
  /\ err = NoErr
  /\ env = (kAp :> s9090) @@ (kN :> sTrue)
  /\ data = (kAP :> IntV(9090)) @@ (<<"N">> :> BoolV(TRUE))

(***************************************************************************)
(* C16. Encrypted-file loader and the secret: for a blob produced by       *)
(* encrypting a flat map under the secret S (stored under a .json.enc,     *)
(* .yaml.enc or .yml.enc path), LoadEncryptedFile with S succeeds and      *)
(* merges exactly that map into the Store; with any secret other than S it *)
(* fails with the decryption error and the Store is unchanged.             *)
(***************************************************************************)
\* a blob sealed under some secret whose content is a map: no key twice
C16_Sealed(p) ==
  /\ Exists(p)
  /\ FS[p].syntax = "base64"
  /\ FS[p].size >= NonceSize
  /\ FS[p].sealedWith # <<>>
  /\ \A i, j \in 1..Len(FS[p].plain.entries) :
       FS[p].plain.entries[i][1] = FS[p].plain.entries[j][1] => i = j

C16_IsJson(p) == HasSuffix(p, DotJson \o DotEnc)

C16_IsYaml(p) == HasSuffix(p, DotYaml \o DotEnc) \/ HasSuffix(p, DotYml \o DotEnc)

\* the flat map that was sealed, as the decoder of the suffix reads it
C16_Map(p) ==
  LET ents == FS[p].plain.entries
  IN  [k \in EntryKeys(ents) |->
         IF C16_IsJson(p) THEN jsonValue(LastOf(ents, k)) ELSE LastOf(ents, k)]

C16_MergedExactly(m) ==
  /\ DOMAIN data' = DOMAIN data \cup {ToUpper(k) : k \in DOMAIN m}
  /\ \A K \in DOMAIN data' :
       IF \E k \in DOMAIN m : ToUpper(k) = K
         THEN data'[K] \in
                {normalizeValue(m[k]) : k \in {x \in DOMAIN m : ToUpper(x) = K}}
         ELSE data'[K] = data[K]

C16_Step(p, s) ==
  (call' = <<"LoadEncryptedFile", p, s>> /\ C16_Sealed(p))
    => IF s = FS[p].sealedWith
         THEN (C16_IsJson(p) \/ C16_IsYaml(p))
                => /\ err' = NoErr
                   /\ C16_MergedExactly(C16_Map(p))
         ELSE /\ err' = ErrDecrypt
              /\ data' = data

C17_Short(p) ==
  /\ Exists(p)
  /\ FS[p].syntax = "base64"
  /\ FS[p].size < NonceSize

C17_Step(p, s) ==
  (call' = <<"LoadEncryptedFile", p, s>> /\ C17_Short(p))
    => /\ err' = ErrShort
       /\ err' # ErrDecrypt
       /\ data' = data
       /\ env' = env
       /\ lastw' = lastw

C17_ShortCiphertext ==
  [][\A p \in EncPaths, s \in Secrets : C17_Step(p, s)]_vars

\* LoadEncryptedFile of the empty blob on a Store that holds AP and N
C17_Witness ==
  /\ call = <<"LoadEncryptedFile", pEmptyEnc, Secret>>
  /\ FS[pEmptyEnc].size = 0
  /\ err = ErrShort
  /\ DOMAIN data = {kAP, <<"N">>}

(***************************************************************************)
(* C18. Default-only projection: Unmarshal of an empty Store onto a        *)
(* structure of string, integer and boolean fields that declare default    *)
(* literals yields exactly those defaults, each parsed according to the    *)
(* type of its field, and succeeds when the defaults satisfy the           *)
(* validation rules.                                                       *)
(***************************************************************************)
C18_Typed(T) == \A i \in 1..Len(T) : T[i].kind \in {"string", "int", "bool"}

\* the literal read as a value of the field's type; the zero value when
\* it cannot be read
C18_Parsed(f) ==
  IF f.kind = "string" THEN StrV(f.def)
  ELSE IF f.kind = "int"
    THEN IF C4_IsInteger(f.def) THEN IntV(C4_IntegerOf(f.def)) ELSE IntV(0)
  ELSE IF f.kind = "bool"
    THEN BoolV(f.def \in C4_TrueSpellings \cup {<<"1">>})
  ELSE FloatV(0, 0)

C18_ZeroOf(f) ==
  IF f.kind = "string" THEN StrV(<<>>)
  ELSE IF f.kind = "int" THEN IntV(0)
  ELSE IF f.kind = "bool" THEN BoolV(FALSE)
  ELSE FloatV(0, 0)

C18_Default(f) == IF f.def = <<>> THEN C18_ZeroOf(f) ELSE C18_Parsed(f)

C18_Accepts(rule, v) ==
  LET size == IF v[1] = "string" THEN Len(v[2]) ELSE v[2]
  IN  IF rule[1] = "required" THEN v \notin {StrV(<<>>), IntV(0), BoolV(FALSE)}
      ELSE IF rule[1] = "gte" THEN size >= rule[2]
      ELSE size <= rule[2]

C18_DefaultsValid(T) ==
  \A i \in 1..Len(T) :
    \A j \in 1..Len(T[i].rules) : C18_Accepts(T[i].rules[j], C18_Default(T[i]))

C18_DefaultOnly ==
  \A T \in DOMAIN Schemas :
    (call = <<"Unmarshal", T>> /\ data = EmptyMap /\ C18_Typed(Schemas[T]))
      => /\ \A i \in 1..Len(Schemas[T]) :
              target[Schemas[T][i].name] = C18_Default(Schemas[T][i])
         /\ C18_DefaultsValid(Schemas[T]) => err = NoErr

\* Unmarshal of the empty Store onto an AppCfg has returned nil and left
\* Name "svc", Port 8080 and Debug true
C18_Witness ==
  /\ call = <<"Unmarshal", "AppCfg">>
  /\ data = EmptyMap
  /\ err = NoErr
  /\ target = ("Name" :> StrV(sSvc)) @@ ("Port" :> IntV(8080))
                @@ ("Debug" :> BoolV(TRUE))

(***************************************************************************)
(* C19. A default literal is applied only to a field that holds the zero   *)
(* value of its type after projection: a field that received a non-zero    *)
(* value from the Store is never overwritten by its default, and a field   *)
(* that Unmarshal changed after projection held the zero value and holds   *)
(* its default; a field (of a structure of string, integer and boolean     *)
(* fields) whose Store value is itself the zero value (0, false, empty     *)
(* string) is replaced by the default.                                     *)
(***************************************************************************)
\* the value the projection gives the field
C19_Projected(f) ==
  IF f.key \notin DOMAIN data THEN C18_ZeroOf(f)
  ELSE LET v == data[f.key]
       IN  IF v = NilV THEN C18_ZeroOf(f)
           ELSE IF f.kind = "int" /\ v[1] = "float" THEN IntV(v[2])
           ELSE IF f.kind = "float" /\ v[1] = "int" THEN FloatV(v[2], 0)
           ELSE v

C19_Field(T, f) ==
  /\ C19_Projected(f) # C18_ZeroOf(f) => target[f.name] = C19_Projected(f)
  /\ target[f.name] # C19_Projected(f)
       => /\ C19_Projected(f) = C18_ZeroOf(f)
          /\ target[f.name] = C18_Parsed(f)
  /\ (C18_Typed(T) /\ f.key \in DOMAIN data /\ C19_Projected(f) = C18_ZeroOf(f))
       => target[f.name] = C18_Default(f)

C20_Field(f) ==
  (/\ f.def # <<>>
   /\ f.kind \in {"string", "int", "bool"}
   /\ C19_Projected(f) = C18_ZeroOf(f))
    => target[f.name] = C18_Default(f)

C20_DefaultsCoverEveryField ==
  \A T \in DOMAIN Schemas :
    (call = <<"Unmarshal", T>> /\ err # ErrUnmarshalType)
      => /\ \A i \in 1..Len(Schemas[T]) : C20_Field(Schemas[T][i])
         /\ T = "BadLiteral" => err = NoErr

(***************************************************************************)
(* C21. Validation boundary: for an integer field with the rule            *)
(* gte=1000,lte=9999, Unmarshal rejects the field with a validation error  *)
(* exactly when the value it holds is outside 1000..9999, both bounds      *)
(* accepted: a Store value of 1000 or 9999 passes, one of 999 or 10000 is  *)
(* rejected, and Unmarshal returns nil when the value is in the range and  *)
(* the rules of the other fields hold.                                     *)
(***************************************************************************)
C21_Ranged(f) == f.kind = "int" /\ f.rules = <<Gte(1000), Lte(9999)>>

C21_InRange(v) == 1000 <= v[2] /\ v[2] <= 9999

\* the returned error is a validation error that names the field
C21_Rejected(f) ==
  /\ err[1] = "validation failed"
  /\ \E j \in 1..Len(err[2]) : err[2][j][1] = f.name

C21_OthersHold(T, f) ==
  \A i \in 1..Len(T) :
    T[i] # f => \A j \in 1..Len(T[i].rules) :
                  C18_Accepts(T[i].rules[j], target[T[i].name])

C21_Field(T, f) ==
  /\ C21_Rejected(f) <=> ~C21_InRange(target[f.name])
  /\ (C21_InRange(target[f.name]) /\ C21_OthersHold(T, f)) => err = NoErr
  /\ ~C21_InRange(target[f.name]) => err # NoErr
  /\ \A n \in {999, 1000, 9999, 10000} :
       (f.key \in DOMAIN data /\ data[f.key] = IntV(n))
         => /\ target[f.name] = IntV(n)
            /\ C21_Rejected(f) <=> n \in {999, 10000}

C21_ValidationBoundary ==
  \A T \in DOMAIN Schemas :
    (call = <<"Unmarshal", T>> /\ err # ErrUnmarshalType)
      => \A i \in 1..Len(Schemas[T]) :
           C21_Ranged(Schemas[T][i]) => C21_Field(Schemas[T], Schemas[T][i])

\* the Store holds AP = 1000 and N = "x": Unmarshal onto a NoDefaults has
\* returned nil with Port 1000
C21_Witness ==
  /\ call = <<"Unmarshal", "NoDefaults">>
  /\ data = (kAP :> IntV(1000)) @@ (<<"N">> :> StrV(sX))
  /\ err = NoErr
  /\ target["Port"] = IntV(1000)

(***************************************************************************)
(* C22. Unmarshal applies the defaults before it validates, and validation *)
(* sees the defaulted value: a field with validation rules whose key is    *)
(* absent from the Store holds its default and is not rejected when the    *)
(* default satisfies the rules, and is rejected, holding the zero value,   *)
(* when it declares no default and the zero value breaks a rule.           *)
(***************************************************************************)
C22_Absent(f) == \A k \in DOMAIN data : ToUpper(k) # ToUpper(f.key)

C22_AllAccept(f, v) == \A j \in 1..Len(f.rules) : C18_Accepts(f.rules[j], v)

C22_Field(f) ==
  /\ (f.def # <<>> /\ C22_AllAccept(f, C18_Default(f)))
       => /\ target[f.name] = C18_Default(f)
          /\ ~C21_Rejected(f)
  /\ (f.def = <<>> /\ ~C22_AllAccept(f, C18_ZeroOf(f)))
       => /\ target[f.name] = C18_ZeroOf(f)
          /\ C21_Rejected(f)

C22_ValidationSeesDefaults ==
  \A T \in DOMAIN Schemas :
    (call = <<"Unmarshal", T>> /\ err # ErrUnmarshalType)
      => \A i \in 1..Len(Schemas[T]) :
           (Schemas[T][i].rules # <<>> /\ C22_Absent(Schemas[T][i]))
             => C22_Field(Schemas[T][i])

\* the Store holds D only: Unmarshal onto an AppCfg has returned nil, the
\* required Name holding its default "svc" and the ranged Port 8080
C22_Witness ==
  /\ call = <<"Unmarshal", "AppCfg">>
  /\ DOMAIN data = {kD}
  /\ err = NoErr
  /\ target["Name"] = StrV(sSvc)
  /\ target["Port"] = IntV(8080)

(***************************************************************************)
(* C23. Validation failure does not roll back: when Unmarshal returns a    *)
(* validation error, the error wraps the validator's failures (each a      *)
(* field of the structure with a rule its value breaks), the structure     *)
(* holds for every field the value it had when validation started (the     *)
(* projected value, or the default where the projected value was zero),    *)
(* and the Store and the process environment are as before the call.       *)
(***************************************************************************)
\* the value of the field when validation starts
C23_Validated(f) ==
  IF f.def # <<>> /\ C19_Projected(f) = C18_ZeroOf(f) THEN C18_Default(f)
  ELSE C19_Projected(f)

C23_IsFailure(T, fl) ==
  \E i \in 1..Len(T) :
    /\ T[i].name = fl[1]
    /\ \E j \in 1..Len(T[i].rules) :
         /\ T[i].rules[j][1] = fl[2]
         /\ ~C18_Accepts(T[i].rules[j], C23_Validated(T[i]))

C23_Step(T) ==
  (call' = <<"Unmarshal", T>> /\ err'[1] = "validation failed")
    => /\ data' = data
       /\ env' = env
       /\ err'[2] # <<>>
       /\ \A j \in 1..Len(err'[2]) : C23_IsFailure(Schemas[T], err'[2][j])
       /\ \A i \in 1..Len(Schemas[T]) :
            target'[Schemas[T][i].name] = C23_Validated(Schemas[T][i])

C23_NoRollback == [][\A T \in DOMAIN Schemas : C23_Step(T)]_vars

\* the Store holds AP = 999: Unmarshal onto an AppCfg has returned the
\* validation error for Port and left Name "svc", Port 999 and Debug true
C23_Witness ==
  /\ call = <<"Unmarshal", "AppCfg">>
  /\ data = (kAP :> IntV(999))
  /\ err = ErrValidation(<< <<"Port", "gte">> >>)
  /\ target = ("Name" :> StrV(sSvc)) @@ ("Port" :> IntV(999))
                @@ ("Debug" :> BoolV(TRUE))

(***************************************************************************)
(* C30. Set-then-project round trip for strings: after Set(k, s) on an     *)
(* empty Store, Unmarshal onto a structure whose field for k is a string   *)
(* without default and rules.                                              *)
(*  - C30_EveryStringRoundTrips: for every string s the call returns nil   *)
(*    and the field equals s trimmed, digits and boolean literals included *)
(*    (the claim as made);                                                 *)
(*  - C30_StringRoundTrip: it does so exactly when s trimmed is neither an *)
(*    integer literal nor a boolean literal; otherwise the Store holds an  *)
(*    integer or a boolean, json.Unmarshal returns its type error and the  *)
(*    field stays empty.                                                   *)
(***************************************************************************)
C30_Strings == {kv[2][2] : kv \in {x \in UnmarshalSets : IsStr(x[2])}}

\* the Store was filled by Set("n", s) alone and projected onto a Plain
C30_Case(s) ==
  /\ call = <<"Unmarshal", "Plain">>
  /\ DOMAIN data = {<<"N">>}
  /\ DOMAIN lastw = {<<"N">>}
  /\ lastw[<<"N">>] = [op |-> "Set", raws |-> {StrV(s)}]

C30_EveryStringRoundTrips ==
  \A s \in C30_Strings :
    C30_Case(s) => /\ err = NoErr
                   /\ target["Name"] = StrV(C4_Trimmed(s))

C30_StringRoundTrip ==
  \A s \in C30_Strings :
    C30_Case(s) =>
      IF C4_Coerced(s)[1] = "string"
        THEN /\ err = NoErr
             /\ target["Name"] = StrV(C4_Trimmed(s))
        ELSE /\ err = ErrUnmarshalType
             /\ target["Name"] = StrV(<<>>)

\* Set("n", " x ") and then Unmarshal onto a Plain: nil, and Name is "x"
C30_Witness ==
  /\ C30_Case(sPadX)
  /\ err = NoErr
  /\ target["Name"] = StrV(sX)

(***************************************************************************)
(* C25. LoadWithProfile does not roll back across its two steps.  With the *)
(* profile variable set and a base path of a structured or dot-env         *)
(* extension:                                                              *)
(*  - when the base file fails to load, the call returns that error, the   *)
(*    Store is as before the call, and no profile file is probed or read;  *)
(*  - when the base file has loaded and the profile file the call found    *)
(*    fails to load, the call returns the error of loading the profile     *)
(*    file and the Store is the Store after loading the base file alone.   *)
(***************************************************************************)
C25_Applies(k, b) ==
  /\ call' = <<"LoadWithProfile", k, b>>
  /\ k \in DOMAIN env
  /\ env[k] # <<>>
  /\ (C12_Structured(b) \/ ToLower(Ext(b)) = DotEnv)

\* the errors of loading the file p on its own
C25_Errors(p, dotenv) ==
  {st.err : st \in C12_Load(C12_NewStore, p, dotenv)} \ {NoErr}

C25_BaseFails(k, b) ==
  (C25_Applies(k, b) /\ \A st \in C11_BaseAlone(b) : st.err # NoErr)
    => /\ err' \in {st.err : st \in C11_BaseAlone(b)}
       /\ data' = data
       /\ stats' = <<>>
       /\ reads' = <<b>>

C25_ProfileFails(k, b) ==
  (/\ C25_Applies(k, b)
   /\ \E st \in C11_BaseAlone(b) : st.err = NoErr
   /\ stats' # <<>>
   /\ Exists(stats'[1])
   /\ C25_Errors(stats'[1], ToLower(Ext(b)) = DotEnv) # {})
    => /\ err' \in C25_Errors(stats'[1], ToLower(Ext(b)) = DotEnv)
       /\ data' \in {st.data : st \in {x \in C11_BaseAlone(b) : x.err = NoErr}}
       /\ reads' = <<b, stats'[1]>>

C25_NoRollbackAcrossSteps ==
  [][\A k \in ProfileKeys, b \in BasePaths :
       C25_BaseFails(k, b) /\ C25_ProfileFails(k, b)]_vars

\* E is x: LoadWithProfile("E", "b.yaml") has returned the parse error of
\* the malformed b-x.yaml, and the Store holds what b.yaml gave it
C25_Witness ==
  /\ call = <<"LoadWithProfile", kE, pBYaml>>
  /\ stats = <<pBXYaml>>
  /\ reads = <<pBYaml, pBXYaml>>
  /\ err = ErrParse("yaml")
  /\ data = (kAP :> IntV(80)) @@ (<<"N">> :> BoolV(TRUE))

(***************************************************************************)
(* C28. Profile selection is fixed at call entry: LoadWithProfile on a     *)
(* dot-env base file selects the profile from the value the named          *)
(* variable has when the call starts, although loading the base file       *)
(* writes the variables it defines into the process environment: with the  *)
(* variable unset or empty at entry no profile file is probed or read,     *)
(* and with the value e at entry the one file probed is <base>.<e>,        *)
(* whatever value the variable has when the call returns.                  *)
(***************************************************************************)
C28_Step(k, b) ==
  (/\ call' = <<"LoadWithProfile", k, b>>
   /\ ToLower(Ext(b)) = DotEnv
   /\ \E st \in C11_BaseAlone(b) : st.err = NoErr)
    => IF k \in DOMAIN env /\ env[k] # <<>>
         THEN /\ stats' = << b \o <<".">> \o env[k] >>
              /\ reads' = IF Exists(stats'[1]) THEN <<b, stats'[1]>> ELSE <<b>>
         ELSE /\ stats' = <<>>
              /\ reads' = <<b>>

C28_SelectionFixedAtEntry ==
  [][\A k \in ProfileKeys, b \in BasePaths : C28_Step(k, b)]_vars

\* n was dev at entry: LoadWithProfile("n", ".env") has probed and loaded
\* .env.dev, while the two files have set n to "true" and then to "Fs"
C28_Witness ==
  /\ call = <<"LoadWithProfile", kN, pEnv>>
  /\ stats = <<pEnvDev>>
  /\ reads = <<pEnv, pEnvDev>>
  /\ kN \in DOMAIN env
  /\ env[kN] = sFs
  /\ err = NoErr

(***************************************************************************)
(* C26. Failure order of the encrypted-file loader: the checks run in the  *)
(* order file read, base64 decode, nonce-length check, authenticated       *)
(* decryption, suffix selection, plaintext decode, and the error returned  *)
(* is that of the first check that fails (nil when none does).  So an      *)
(* unsupported suffix is reported only for a blob the secret opened, and   *)
(* a wrong secret on a file with an unsupported suffix reports the         *)
(* decryption failure.                                                     *)
(***************************************************************************)
C26_Suffixes ==
  { <<".","j","s","o","n",".","e","n","c">>,
    <<".","y","a","m","l",".","e","n","c">>,
    <<".","y","m","l",".","e","n","c">> }

C26_EndsWith(p, suf) ==
  Len(p) >= Len(suf) /\ SubSeq(p, Len(p) - Len(suf) + 1, Len(p)) = suf

C26_Supported(p) == \E suf \in C26_Suffixes : C26_EndsWith(p, suf)

\* the sealed content is well-formed in the syntax the suffix selects
C26_Decodes(p) ==
  LET c == FS[p].plain
  IN  IF C26_EndsWith(p, <<".","j","s","o","n",".","e","n","c">>)
        THEN c.syntax = "json"
        ELSE /\ c.syntax \in {"yaml", "json"}
             /\ \A i, j \in 1..Len(c.entries) :
                  c.entries[i][1] = c.entries[j][1] => i = j

\* the first check that fails, 0 when none does
C26_First(p, s) ==
  IF p \notin DOMAIN FS THEN 1
  ELSE IF FS[p].syntax # "base64" THEN 2
  ELSE IF FS[p].size < 12 THEN 3
  ELSE IF FS[p].sealedWith # s THEN 4
  ELSE IF ~C26_Supported(p) THEN 5
  ELSE IF ~C26_Decodes(p) THEN 6
  ELSE 0

C26_Kind ==
  << "open", "illegal base64 data", "ciphertext too short",
     "decryption failed", "unsupported encrypted file type", "parse" >>

C26_Step(p, s) ==
  call' = <<"LoadEncryptedFile", p, s>>
    => /\ IF C26_First(p, s) = 0 THEN err' = NoErr
          ELSE err'[1] = C26_Kind[C26_First(p, s)]
       /\ err'[1] = "unsupported encrypted file type"
            => /\ p \in DOMAIN FS
               /\ FS[p].syntax = "base64"
               /\ FS[p].sealedWith = s
       /\ (/\ p \in DOMAIN FS
           /\ FS[p].syntax = "base64"
           /\ FS[p].size >= 12
           /\ FS[p].sealedWith # s
           /\ ~C26_Supported(p))
            => err'[1] = "decryption failed"

C26_FailureOrder ==
  [][\A p \in EncPaths, s \in Secrets : C26_Step(p, s)]_vars

\* s.bin is sealed under another secret and has no supported suffix: the
\* loader has reported the decryption failure
C26_Witness ==
  /\ call = <<"LoadEncryptedFile", pBinEnc, WrongSecret>>
  /\ ~C26_Supported(pBinEnc)
  /\ err = ErrDecrypt

(***************************************************************************)
(* C27. A single-source load is all-or-nothing for the Store: whenever     *)
(* LoadFromFile, LoadFromDotEnv or LoadEncryptedFile returns an error, the *)
(* Store is exactly as it was before the call, also when the decoder had   *)
(* decoded some entries before it failed.                                  *)
(***************************************************************************)
C27_SingleSource == {"LoadFromFile", "LoadFromDotEnv", "LoadEncryptedFile"}

C27_AllOrNothing ==
  [][(call'[1] \in C27_SingleSource /\ err' # NoErr) => data' = data]_vars

\* the Store held AP = 50: LoadFromFile of u.yml, whose decoder read n: 7
\* before it met the repeated key, has failed and the Store holds AP = 50
C27_Witness ==
  /\ call = <<"LoadFromFile", pDupYaml>>
  /\ err = ErrParse("yaml")
  /\ data = (kAP :> IntV(50))

(***************************************************************************)
(* C29. Loads are deterministic: the Store after LoadFromFile,             *)
(* LoadFromDotEnv or LoadEncryptedFile is a function of the Store before   *)
(* the call and of the content of the source, so every run of the call     *)
(* from the same Store on the same content ends in the same Store, also    *)
(* when the source holds two keys that differ only in letter case.         *)
(***************************************************************************)
\* every Store the call can end in is the Store it ended in
C29_OneOutcome(sts) == \A st \in sts : st.data = data'

C29_LoadsAreDeterministic ==
  [][/\ \A p \in FilePaths :
          call' = <<"LoadFromFile", p>> => C29_OneOutcome(LoadFromFile(Cur, p))
     /\ \A p \in DotEnvPaths :
          call' = <<"LoadFromDotEnv", p>>
            => C29_OneOutcome(LoadFromDotEnv(Cur, p))
     /\ \A p \in EncPaths, s \in Secrets :
          call' = <<"LoadEncryptedFile", p, s>>
            => C29_OneOutcome(LoadEncryptedFile(Cur, p, s))]_vars

(***************************************************************************)
(* C24. Export round trip: for every Store reachable by Set and load       *)
(* operations, loading the output of ToJSON as a .json file, or the output *)
(* of ToYAML as a .yaml file, into an empty Store succeeds and gives the   *)
(* same key set and, for every key, the normalized form of the value the   *)
(* original Store holds, with the same type (integer, boolean or string;   *)
(* a whole float counts as its integer).                                   *)
(***************************************************************************)
\* the normalized form of a stored value
C24_Normal(v) == IF IsStr(v) THEN C4_Coerced(v[2]) ELSE C5_Narrowed(v)

C24_ExportRoundTrip ==
  pc = "reloaded"
    => /\ err = NoErr
       /\ DOMAIN copy = DOMAIN data
       /\ \A K \in DOMAIN data : copy[K] = C24_Normal(data[K])

====
